---- MODULE Spec2Model ----
(***************************************************************************)
(* State-machine model of the Scrypted Privacy Manager plugin:             *)
(*   - AuditLogger        (src/src/utils.ts.bak, second half)              *)
(*   - WebhookManager     (src/src/webhook-manager.ts)                     *)
(*   - ScheduleManager    (src/unnamed/part_001) and the time-window       *)
(*                        functions of src/src/utils.ts.bak                *)
(*   - PrivacyMixin       (src/unnamed/part_002)                           *)
(*   - PrivacyManagerPlugin (src/unnamed/part_003)                         *)
(*   - PrivacyProfileDevice (src/src/privacy-profile.ts)                   *)
(*                                                                         *)
(* Time: Date.now() is modelled at minute resolution, as the number of     *)
(* minutes since a Sunday 00:00 local time (1 unit = 60000 ms).            *)
(***************************************************************************)
EXTENDS Integers, Sequences, FiniteSets, TLC

VARIABLES
    now,                      \* the clock (Date.now(), in minutes)
    DEFAULT_PRIVACY_SETTINGS, \* the shared all-allowed baseline object (a mutable JS object)
    pluginSettings,           \* PrivacyManagerPlugin.pluginSettings
    managers,                 \* initializePlugin() has created the three managers
    initialized,              \* PrivacyManagerPlugin.initialized
    callbacks,                \* ScheduleManager.callbacks: the registered callbacks, in insertion order
    calls,                    \* the callback invocations made by the call of the last step
    schedules,                \* ScheduleManager.schedules: the entries, in insertion order
    checkInterval,            \* ScheduleManager.checkInterval: the handle of its timer, or null
    intervals,                \* the host's live interval timers (setInterval less clearInterval)
    privacyMixins,            \* PrivacyManagerPlugin.privacyMixins: cameraId -> mixin config
    effectiveSettings,        \* PrivacyMixin.effectiveSettings, per camera
    profileDevices,           \* PrivacyManagerPlugin.profileDevices: nativeId -> device profile
    panicModeDevice,          \* PrivacyManagerPlugin.panicModeDevice: the panic switch (its on state), or null
    logCache,                 \* AuditLogger.logCache
    auditStorage,             \* the persisted value under STORAGE_KEYS.AUDIT_LOG
    retentionDays,            \* AuditLogger.retentionDays
    auditRet,                 \* what the last applyRetention() returned
    setItemThrows,            \* the host's storage.setItem() throws for the audit key
    auditRaised,              \* the call made by the last step had an audit-log mutation reject
    webhookConfig,            \* WebhookManager.config
    deliveries,               \* WebhookManager: the deliveries submitted so far
    flushes,                  \* WebhookManager: the flush() calls made so far
    tests,                    \* WebhookManager: the test() calls made so far
    scheduleArg,              \* utils: the PrivacySchedule handed to a time-window function
    utilRet,                  \* what the last time-window function or schedule query returned
    mixinRet,                 \* PrivacyMixin: how the last camera call on a mixin ended
    frames,                   \* ScheduleManager: the checkSchedules() calls begun and not returned
    lastEdge,                 \* per subject, the last thing the callback "observer" saw of it
    notifications,            \* the notify*() calls the last handler made on the webhook manager
    turning                   \* PanicModeDevice: the turnOn()/turnOff() calls awaiting setPanicMode()

vars == <<now, DEFAULT_PRIVACY_SETTINGS, pluginSettings, managers, initialized, callbacks, calls,
          schedules, checkInterval, intervals, privacyMixins, effectiveSettings, profileDevices,
          panicModeDevice,
          logCache, auditStorage, retentionDays, auditRet, setItemThrows, auditRaised,
          webhookConfig, deliveries, flushes, tests, scheduleArg, utilRet, mixinRet, frames, lastEdge, notifications, turning>>

policyVars == <<DEFAULT_PRIVACY_SETTINGS, pluginSettings, managers, initialized, callbacks, calls,
                schedules, checkInterval, intervals, privacyMixins, effectiveSettings, profileDevices,
                panicModeDevice>>
auditVars == <<logCache, auditStorage, retentionDays, auditRet, setItemThrows, auditRaised>>
webhookVars == <<webhookConfig, deliveries, flushes, tests>>
utilVars == <<scheduleArg, utilRet, mixinRet, frames, lastEdge, notifications, turning>>

\* a JS null / undefined / absent map entry
Null == [null |-> TRUE]

\* no callback seen yet, for any subject
NothingSeen == <<>>

\* The plugin's state as one value: a handler is a function from the state
\* before it to the state after it, and an action commits the result.  A
\* call starts with nothing raised and no callback invoked.
World ==
    [now |-> now,
     DEFAULT_PRIVACY_SETTINGS |-> DEFAULT_PRIVACY_SETTINGS,
     pluginSettings |-> pluginSettings,
     managers |-> managers,
     initialized |-> initialized,
     callbacks |-> callbacks,
     calls |-> <<>>,
     notified |-> <<>>,
     schedules |-> schedules,
     checkInterval |-> checkInterval,
     intervals |-> intervals,
     privacyMixins |-> privacyMixins,
     effectiveSettings |-> effectiveSettings,
     profileDevices |-> profileDevices,
     panicModeDevice |-> panicModeDevice,
     logCache |-> logCache,
     auditStorage |-> auditStorage,
     retentionDays |-> retentionDays,
     auditRet |-> auditRet,
     setItemThrows |-> setItemThrows,
     auditRaised |-> FALSE]

Commit(w) ==
    /\ now' = w.now
    /\ DEFAULT_PRIVACY_SETTINGS' = w.DEFAULT_PRIVACY_SETTINGS
    /\ pluginSettings' = w.pluginSettings
    /\ managers' = w.managers
    /\ initialized' = w.initialized
    /\ callbacks' = w.callbacks
    /\ calls' = w.calls
    /\ schedules' = w.schedules
    /\ checkInterval' = w.checkInterval
    /\ intervals' = w.intervals
    /\ privacyMixins' = w.privacyMixins
    /\ effectiveSettings' = w.effectiveSettings
    /\ profileDevices' = w.profileDevices
    /\ panicModeDevice' = w.panicModeDevice
    /\ logCache' = w.logCache
    /\ auditStorage' = w.auditStorage
    /\ retentionDays' = w.retentionDays
    /\ auditRet' = w.auditRet
    /\ setItemThrows' = w.setItemThrows
    /\ auditRaised' = w.auditRaised

-----------------------------------------------------------------------------
(* Bounds of the model *)

NumCameras == 1
MaxProfiles == 2
MaxAuditLen == 1
MaxLogsPerInstant == 1
MaxDeliveries == 2
MaxIntervals == 2
MaxFlushes == 1
MaxTests == 1
MaxFrames == 2
MaxTurning == 1

CameraIds == 1..NumCameras
ProfileIds == 1..MaxProfiles

-----------------------------------------------------------------------------
(* types: PrivacySettings and the two baselines *)

Settings(r, e, s, d, m) ==
    [blockRecording |-> r, blockEvents |-> e, blockStreaming |-> s,
     blockDetection |-> d, blockMotionAlerts |-> m]

AllAllowed == Settings(FALSE, FALSE, FALSE, FALSE, FALSE)

FULL_PRIVACY_SETTINGS == Settings(TRUE, TRUE, TRUE, TRUE, TRUE)

-----------------------------------------------------------------------------
(* AuditLogger *)

MAX_LOG_ENTRIES == 1000

DEFAULT_RETENTION_DAYS == 30

\* storage.getItem() found nothing
NoItem == [item |-> FALSE]

\* An audit entry holds its newSettings by reference.  alias names the
\* object it points at when something may write to that object later: a
\* camera's config.manualSettings, a profile's settings or the shared
\* DEFAULT_PRIVACY_SETTINGS; NoAlias is a value of its own.
NoAlias == [kind |-> "none", id |-> 0]

Alias(kind, id) == [kind |-> kind, id |-> id]

\* JSON.stringify(logs), kept as the value it parses back to: the parsed
\* entries share no object with anything
stringify(logs) == [json |-> [i \in 1..Len(logs) |-> [logs[i] EXCEPT !.alias = NoAlias]]]

\* a write to the settings object the alias names: the cached entries that
\* point at the object show the new value
writeThrough(w, alias, settings) ==
    IF w.logCache = Null THEN w
    ELSE [w EXCEPT !.logCache.logs =
             [i \in 1..Len(@) |->
                 IF @[i].alias = alias THEN [@[i] EXCEPT !.newSettings = settings] ELSE @[i]]]

\* safeJsonParse(json, defaultValue): the default when nothing is stored
safeJsonParse(json, defaultValue) ==
    IF json = NoItem THEN defaultValue ELSE json.json

\* getLogs(): the cache when warm, else the persisted value
getLogs(w) ==
    IF w.logCache # Null THEN w.logCache.logs ELSE safeJsonParse(w.auditStorage, <<>>)

\* the retention cutoff: Date.now() - retentionDays * 24 * 60 * 60 * 1000 (in minutes)
cutoffTime(t, days) == t - (days * 24 * 60)

retained(logs, t, days) ==
    SelectSeq(logs, LAMBDA e : e.timestamp > cutoffTime(t, days))

\* log() trimming before the unshift instead of after it
logResultTrimsFirst(logs, entry, t, days) ==
    LET fullEntry == [entry EXCEPT !.timestamp = t]
        trimmed   == IF Len(logs) > MAX_LOG_ENTRIES
                     THEN SubSeq(logs, 1, MAX_LOG_ENTRIES)
                     ELSE logs
    IN  retained(<<fullEntry>> \o trimmed, t, days)

\* log() without the retention filter
logResultNoRetention(logs, entry, t, days) ==
    LET fullEntry == [entry EXCEPT !.timestamp = t]
        unshifted == <<fullEntry>> \o logs
    IN  IF Len(unshifted) > MAX_LOG_ENTRIES
        THEN SubSeq(unshifted, 1, MAX_LOG_ENTRIES)
        ELSE unshifted

\* log() with push in place of unshift
logResultPushes(logs, entry, t, days) ==
    LET fullEntry == [entry EXCEPT !.timestamp = t]
        pushed    == Append(logs, fullEntry)
        trimmed   == IF Len(pushed) > MAX_LOG_ENTRIES
                     THEN SubSeq(pushed, 1, MAX_LOG_ENTRIES)
                     ELSE pushed
    IN  retained(trimmed, t, days)

\* the value log() computes from the current log: unshift, truncate, filter
logResult(logs, entry, t, days) ==
    LET fullEntry == [entry EXCEPT !.timestamp = t]
        unshifted == <<fullEntry>> \o logs
        trimmed   == IF Len(unshifted) > MAX_LOG_ENTRIES
                     THEN SubSeq(unshifted, 1, MAX_LOG_ENTRIES)
                     ELSE unshifted
    IN  retained(trimmed, t, days)

\* storage.setItem(STORAGE_KEYS.AUDIT_LOG, json), called outside any try
\* block: the value is stored, or the host's exception leaves the method
setItem(w, json) ==
    IF w.setItemThrows
    THEN [w EXCEPT !.auditRaised = TRUE]
    ELSE [w EXCEPT !.auditStorage = json]

\* the same call inside try { ... } catch (error) { console.error(...) }
setItemCaught(w, json) == [setItem(w, json) EXCEPT !.auditRaised = w.auditRaised]

\* AuditLogger.log(entry): the cache is replaced before the write, and the
\* whole body is inside a try block
log(w, entry) ==
    LET filteredLogs == logResult(getLogs(w), entry, w.now, w.retentionDays)
    IN  setItemCaught([w EXCEPT !.logCache = [logs |-> filteredLogs]],
                      stringify(filteredLogs))

\* AuditLogger.applyRetention(): writes only when something was removed
applyRetention(w) ==
    LET logs == getLogs(w)
        filteredLogs == retained(logs, w.now, w.retentionDays)
        removed == Len(logs) - Len(filteredLogs)
        written == setItem([w EXCEPT !.logCache = [logs |-> filteredLogs]],
                           stringify(filteredLogs))
    IN  IF removed > 0
        THEN IF written.auditRaised
             THEN written
             ELSE [written EXCEPT !.auditRet = [op |-> "applyRetention", removed |-> removed]]
        ELSE [w EXCEPT !.logCache = [logs |-> logs],
                       !.auditRet = [op |-> "applyRetention", removed |-> removed]]

\* AuditLogger.clearLogs()
clearLogs(w) ==
    setItem([w EXCEPT !.logCache = [logs |-> <<>>]], stringify(<<>>))

\* AuditLogger.setRetentionDays(days)
setRetentionDays(w, days) == [w EXCEPT !.retentionDays = days]

\* a read through getLogs(): warms the cache
readLogs(w) == [w EXCEPT !.logCache = [logs |-> getLogs(w)]]

-----------------------------------------------------------------------------
(* WebhookManager *)

retryCount == 3

retryDelayMs == 1000

\* a filter that looks only at whether a configuration is set
isEnabledForConfigured(event) == webhookConfig # Null

\* isEnabledFor(event)
isEnabledFor(event) == webhookConfig # Null /\ event \in webhookConfig.events

\* a backoff that does not grow with the attempt
sleepMsConstant(attempt) == retryDelayMs

\* the wait after a failed attempt: retryDelayMs * attempt
sleepMs(attempt) == retryDelayMs * attempt

\* sendWithRetry, catch branch: wait and go round again, or give up after
\* the last attempt (a logged permanent failure; nothing is rethrown)
afterFailure(d) ==
    IF d.attempt < retryCount
    THEN [d EXCEPT !.pc = "sleep", !.waits = Append(@, sleepMs(d.attempt))]
    ELSE [d EXCEPT !.pc = "failed", !.pending = FALSE, !.notify = "resolved"]

\* sendWithRetry, try branch: doSend returned, the loop ends
afterSuccess(d) ==
    [d EXCEPT !.pc = "sent", !.pending = FALSE, !.notify = "resolved"]

\* doSend(payload): returns at once when no configuration is set, else
\* issues the POST
doSend(d) ==
    IF webhookConfig = Null
    THEN afterSuccess([d EXCEPT !.attempts = Append(@, "noConfig")])
    ELSE [d EXCEPT !.pc = "post"]

\* notify*(...) -> send(payload) -> sendWithRetry(payload), up to the first
\* POST being in flight; the request is added to pendingRequests
notify(event) ==
    /\ isEnabledFor(event)
    /\ deliveries' = Append(deliveries,
           doSend([event |-> event, attempt |-> 1, attempts |-> <<>>,
                   waits |-> <<>>, pc |-> "start", pending |-> TRUE,
                   notify |-> "awaiting"]))
    /\ UNCHANGED <<webhookConfig, flushes, tests>>

\* notify*(...) for an event that is not subscribed: returns at once
notifyIgnored(event) ==
    /\ ~isEnabledFor(event)
    /\ UNCHANGED <<webhookConfig, deliveries, flushes, tests>>

\* the POST of delivery i completes: a 2xx response, a non-2xx response or
\* a transport error
respond(i, result) ==
    /\ deliveries[i].pc = "post"
    /\ LET d == [deliveries[i] EXCEPT !.attempts = Append(@, result)]
       IN  deliveries' = [deliveries EXCEPT ![i] =
               IF result = "2xx" THEN afterSuccess(d) ELSE afterFailure(d)]
    /\ UNCHANGED <<webhookConfig, flushes, tests>>

\* the wait of delivery i is over: the next attempt starts
wake(i) ==
    /\ deliveries[i].pc = "sleep"
    /\ deliveries' = [deliveries EXCEPT ![i] =
           doSend([deliveries[i] EXCEPT !.attempt = @ + 1])]
    /\ UNCHANGED <<webhookConfig, flushes, tests>>

\* setConfig(config | null)
setConfig(config) ==
    /\ webhookConfig' = config
    /\ UNCHANGED <<deliveries, flushes, tests>>

\* the promise of sendWithRetry(payload) is settled
settled(d) == d.pc \in {"sent", "failed"}

\* a combinator that settles with the first of its promises
promiseRace(snapshot) == snapshot = {} \/ \E i \in snapshot : settled(deliveries[i])

\* Promise.all(pendingRequests) is settled: every promise it was given is
promiseAll(snapshot) == \A i \in snapshot : settled(deliveries[i])

\* flush(): Promise.all over the pending set as it is at the call
flush ==
    /\ flushes' = Append(flushes,
           [snapshot |-> {i \in 1..Len(deliveries) : deliveries[i].pending},
            pc |-> "awaiting"])
    /\ UNCHANGED <<webhookConfig, deliveries, tests>>

\* the await of flush call j is over: it rejects if a request rejected
flushSettle(j) ==
    /\ flushes[j].pc = "awaiting"
    /\ promiseAll(flushes[j].snapshot)
    /\ flushes' = [flushes EXCEPT ![j].pc =
           IF \E i \in flushes[j].snapshot : deliveries[i].notify = "rejected"
           THEN "rejected" ELSE "resolved"]
    /\ UNCHANGED <<webhookConfig, deliveries, tests>>

\* a test that reports success whatever the response
testResultAlwaysOk(result) == [success |-> TRUE, message |-> "Webhook test successful"]

\* what test() returns once its doSend is over
testResult(result) ==
    IF result = "2xx"
    THEN [success |-> TRUE, message |-> "Webhook test successful"]
    ELSE [success |-> FALSE, message |-> "Webhook test failed"]

\* test(): returns at once when no configuration is set, else issues one
\* POST of a privacy_changed payload through doSend
test ==
    /\ tests' = Append(tests,
           IF webhookConfig = Null
           THEN [pc |-> "done", attempts |-> <<>>,
                 ret |-> [success |-> FALSE, message |-> "Webhook not configured"]]
           ELSE [pc |-> "post", attempts |-> <<>>, ret |-> Null])
    /\ UNCHANGED <<webhookConfig, deliveries, flushes>>

\* the POST of test call k completes
testRespond(k, result) ==
    /\ tests[k].pc = "post"
    /\ tests' = [tests EXCEPT ![k] =
           [pc |-> "done", attempts |-> Append(@.attempts, result), ret |-> testResult(result)]]
    /\ UNCHANGED <<webhookConfig, deliveries, flushes>>

EventKinds == {"privacy_changed", "panic_mode"}

ConfigInputs ==
    {Null,
     [url |-> "https://a", events |-> {"panic_mode"}],
     [url |-> "https://a", events |-> {"privacy_changed"}],
     [url |-> "https://a", events |-> {"privacy_changed", "panic_mode"}]}

PostResults == {"2xx", "non2xx", "transportError"}

-----------------------------------------------------------------------------
(* The audit logger on its own: a log persisted by earlier sessions, then  *)
(* writes, retention runs, retention edits, clears and the clock.          *)

At(day, hh, mm) == (day * 24 * 60) + (hh * 60) + mm

\* the instant the audit session starts at, and the instants it may reach
AuditEpoch == At(40, 12, 0)
AuditInstants == {AuditEpoch, AuditEpoch + At(1, 0, 0), AuditEpoch + At(2, 0, 0)}

\* entries as the callers hand them to log() (no timestamp yet);
\* cameraId 0 stands for the null cameraId of a global entry
Entry(cameraId, trigger, newSettings) ==
    [timestamp |-> 0, cameraId |-> cameraId, trigger |-> trigger,
     newSettings |-> newSettings, alias |-> NoAlias]

AuditInputs ==
    {Entry(0, "panic", FULL_PRIVACY_SETTINGS),
     Entry(1, "manual", Settings(TRUE, FALSE, FALSE, FALSE, FALSE))}

\* a log as an earlier session left it: `recent` entries written one day
\* before AuditEpoch in front of `old` entries written 29 days before it
PersistedLog(recent, old) ==
    [i \in 1..(recent + old) |->
        IF i <= recent
        THEN [Entry(1, "schedule", FULL_PRIVACY_SETTINGS)
                 EXCEPT !.timestamp = AuditEpoch - At(1, 0, 0)]
        ELSE [Entry(0, "panic", FULL_PRIVACY_SETTINGS)
                 EXCEPT !.timestamp = AuditEpoch - At(29, 0, 0)]]

PersistedShapes ==
    {<<0, 0>>, <<2, 1>>,
     <<MAX_LOG_ENTRIES - 2, 1>>, <<MAX_LOG_ENTRIES - 2, 2>>,
     <<MAX_LOG_ENTRIES, 0>>}

RetentionInputs == {1, DEFAULT_RETENTION_DAYS, -1}

\* how many entries of the log were written at instant t
CountAt(logs, t) == Len(SelectSeq(logs, LAMBDA e : e.timestamp = t))

InitPolicyIdle ==
    /\ DEFAULT_PRIVACY_SETTINGS = AllAllowed
    /\ pluginSettings = [panicMode |-> FALSE, profiles |-> <<>>]
    /\ managers = FALSE
    /\ initialized = FALSE
    /\ callbacks = <<>>
    /\ calls = <<>>
    /\ schedules = <<>>
    /\ checkInterval = Null
    /\ intervals = {}
    /\ privacyMixins = [c \in CameraIds |-> Null]
    /\ effectiveSettings = [c \in CameraIds |-> Null]
    /\ profileDevices = [p \in ProfileIds |-> Null]
    /\ panicModeDevice = Null

InitWebhookIdle ==
    /\ webhookConfig = Null
    /\ deliveries = <<>>
    /\ flushes = <<>>
    /\ tests = <<>>

InitUtilIdle ==
    /\ scheduleArg = Null
    /\ utilRet = Null
    /\ mixinRet = Null
    /\ frames = <<>>
    /\ lastEdge = NothingSeen
    /\ notifications = <<>>
    /\ turning = <<>>

InitAudit ==
    /\ now = AuditEpoch
    /\ logCache = Null
    /\ auditStorage \in {NoItem} \cup {stringify(PersistedLog(s[1], s[2])) : s \in PersistedShapes}
    /\ retentionDays = DEFAULT_RETENTION_DAYS
    /\ auditRet = [op |-> "none", removed |-> 0]
    /\ setItemThrows = FALSE
    /\ auditRaised = FALSE
    /\ InitPolicyIdle
    /\ InitWebhookIdle
    /\ InitUtilIdle

AuditLog(entry) ==
    /\ CountAt(getLogs(World), now) < MaxLogsPerInstant
    /\ Commit(log(World, entry))
    /\ UNCHANGED <<webhookVars, utilVars>>

AuditApplyRetention ==
    /\ Commit(applyRetention(World))
    /\ UNCHANGED <<webhookVars, utilVars>>

AuditClearLogs ==
    /\ Commit(clearLogs(World))
    /\ UNCHANGED <<webhookVars, utilVars>>

AuditSetRetentionDays(days) ==
    /\ days # retentionDays
    /\ Commit(setRetentionDays(World, days))
    /\ UNCHANGED <<webhookVars, utilVars>>

AuditRead ==
    /\ logCache = Null
    /\ Commit(readLogs(World))
    /\ UNCHANGED <<webhookVars, utilVars>>

AuditAdvanceClock(t) ==
    /\ t > now
    /\ Commit([World EXCEPT !.now = t])
    /\ UNCHANGED <<webhookVars, utilVars>>

NextAudit ==
    \/ \E entry \in AuditInputs : AuditLog(entry)
    \/ AuditApplyRetention
    \/ AuditClearLogs
    \/ \E days \in RetentionInputs : AuditSetRetentionDays(days)
    \/ AuditRead
    \/ \E t \in AuditInstants : AuditAdvanceClock(t)

SpecAudit == InitAudit /\ [][NextAudit]_vars

-----------------------------------------------------------------------------
(* Claims about the audit logger *)

Min(a, b) == IF a <= b THEN a ELSE b

LogsAfter == logCache'.logs

\* what a log() over the cap may keep of the old log: all but its tail
KeptPrefix(old) == SubSeq(old, 1, Min(Len(old), MAX_LOG_ENTRIES - 1))

AuditSizeInv == Len(getLogs(World)) <= MAX_LOG_ENTRIES

AuditDropsTail ==
    \A entry \in AuditInputs :
        AuditLog(entry) =>
            LogsAfter = retained(<<[entry EXCEPT !.timestamp = now]>> \o KeptPrefix(getLogs(World)),
                                 now, retentionDays)

\* C8: after any sequence of log(), applyRetention, setRetentionDays and
\* clearLogs calls getLogs() has at most 1000 entries, and a log() that would
\* exceed the cap keeps the new entry and the head of the old log: what it
\* drops for the cap is the tail (the oldest entries).
C8_AuditSizeBound == []AuditSizeInv /\ [][AuditDropsTail]_vars

\* a log() was made on a full log of 1000 entries: the new entry is at the
\* head and only 999 of the 1000 persisted entries are left
C8_Witness ==
    /\ logCache # Null
    /\ Len(logCache.logs) = MAX_LOG_ENTRIES
    /\ logCache.logs[1].timestamp = now
    /\ CountAt(logCache.logs, AuditEpoch - At(1, 0, 0)) = MAX_LOG_ENTRIES - 1

\* no entry is older than the retention window (its timestamp is not before
\* now - retentionDays days)
NoneExpired(logs, t, days) ==
    \A i \in 1..Len(logs) : logs[i].timestamp >= cutoffTime(t, days)

\* the entries strictly newer than now - retentionDays days, in order
InsideWindow(logs, t, days) ==
    SelectSeq(logs, LAMBDA e : e.timestamp > cutoffTime(t, days))

RetentionAfterLog ==
    (\E entry \in AuditInputs : AuditLog(entry)) =>
        NoneExpired(LogsAfter, now, retentionDays)

RetentionAfterApply ==
    AuditApplyRetention =>
        /\ NoneExpired(LogsAfter, now, retentionDays)
        /\ auditRet'.removed = Len(getLogs(World)) - Len(LogsAfter)
        /\ InsideWindow(LogsAfter, now, retentionDays)
               = InsideWindow(getLogs(World), now, retentionDays)

\* C9 (amended): after applyRetention() and after every log() no retained
\* entry is older than now minus retentionDays days; applyRetention() returns
\* the number of entries it removed and removes no entry that is strictly
\* newer than now minus retentionDays days.  An entry that is exactly
\* retentionDays days old is removed too.
C9_AuditRetention == [][RetentionAfterLog /\ RetentionAfterApply]_vars

\* the entries that are not older than now - retentionDays days, in order
NotOlder(logs, t, days) ==
    SelectSeq(logs, LAMBDA e : e.timestamp >= cutoffTime(t, days))

RetentionKeepsNotOlder ==
    AuditApplyRetention =>
        NotOlder(LogsAfter, now, retentionDays) = NotOlder(getLogs(World), now, retentionDays)

\* C9 as stated: applyRetention() removes only entries older than now minus
\* retentionDays days, so every entry of the window, its edge included, stays.
C9_AsStated == [][RetentionAfterLog /\ RetentionAfterApply /\ RetentionKeepsNotOlder]_vars

\* applyRetention() has removed some entries and others are in the log
C9_Witness ==
    /\ auditRet.op = "applyRetention"
    /\ auditRet.removed > 0
    /\ logCache # Null
    /\ Len(logCache.logs) > 0

-----------------------------------------------------------------------------
(* The audit logger over a store whose writes can fail: the host makes      *)
(* setItem() throw, or work again, at any time.                             *)

InitAuditFaults ==
    /\ now = AuditEpoch
    /\ logCache = Null
    /\ auditStorage \in {NoItem} \cup {stringify(PersistedLog(s[1], s[2])) : s \in PersistedShapes}
    /\ retentionDays = DEFAULT_RETENTION_DAYS
    /\ auditRet = [op |-> "none", removed |-> 0]
    /\ setItemThrows \in BOOLEAN
    /\ auditRaised = FALSE
    /\ InitPolicyIdle
    /\ InitWebhookIdle
    /\ InitUtilIdle

AuditStorageFault(throws) ==
    /\ throws # setItemThrows
    /\ Commit([World EXCEPT !.setItemThrows = throws])
    /\ UNCHANGED <<webhookVars, utilVars>>

NextAuditFaults ==
    \/ \E entry \in AuditInputs : AuditLog(entry)
    \/ AuditApplyRetention
    \/ AuditClearLogs
    \/ \E days \in RetentionInputs : AuditSetRetentionDays(days)
    \/ AuditRead
    \/ \E t \in AuditInstants : AuditAdvanceClock(t)
    \/ \E throws \in BOOLEAN : AuditStorageFault(throws)

SpecAuditFaults == InitAuditFaults /\ [][NextAuditFaults]_vars

\* C13: when the persistence write fails during an audit-log mutation (log,
\* applyRetention, clearLogs), the failure is caught and never reaches the
\* caller of that operation: no audit-log mutation ever rejects.
C13_AuditWriteFailuresContained == ~auditRaised

-----------------------------------------------------------------------------
(* The webhook manager on its own *)

InitAuditIdle ==
    /\ logCache = Null
    /\ auditStorage = NoItem
    /\ retentionDays = DEFAULT_RETENTION_DAYS
    /\ auditRet = [op |-> "none", removed |-> 0]
    /\ setItemThrows = FALSE
    /\ auditRaised = FALSE

InitWebhook ==
    /\ now = AuditEpoch
    /\ InitWebhookIdle
    /\ InitUtilIdle
    /\ InitAuditIdle
    /\ InitPolicyIdle

WebhookNotify(event) ==
    /\ Len(deliveries) < MaxDeliveries
    /\ notify(event)
    /\ UNCHANGED <<now, policyVars, auditVars, utilVars>>

WebhookNotifyIgnored(event) ==
    /\ notifyIgnored(event)
    /\ UNCHANGED <<now, policyVars, auditVars, utilVars>>

WebhookRespond(i, result) ==
    /\ respond(i, result)
    /\ UNCHANGED <<now, policyVars, auditVars, utilVars>>

WebhookWake(i) ==
    /\ wake(i)
    /\ UNCHANGED <<now, policyVars, auditVars, utilVars>>

WebhookSetConfig(config) ==
    /\ config # webhookConfig
    /\ setConfig(config)
    /\ UNCHANGED <<now, policyVars, auditVars, utilVars>>

WebhookFlush ==
    /\ Len(flushes) < MaxFlushes
    /\ flush
    /\ UNCHANGED <<now, policyVars, auditVars, utilVars>>

WebhookFlushSettle(j) ==
    /\ flushSettle(j)
    /\ UNCHANGED <<now, policyVars, auditVars, utilVars>>

WebhookTest ==
    /\ Len(tests) < MaxTests
    /\ test
    /\ UNCHANGED <<now, policyVars, auditVars, utilVars>>

WebhookTestRespond(k, result) ==
    /\ testRespond(k, result)
    /\ UNCHANGED <<now, policyVars, auditVars, utilVars>>

NextWebhook ==
    \/ \E event \in EventKinds : WebhookNotify(event)
    \/ \E event \in EventKinds : WebhookNotifyIgnored(event)
    \/ \E i \in 1..Len(deliveries), result \in PostResults : WebhookRespond(i, result)
    \/ \E i \in 1..Len(deliveries) : WebhookWake(i)
    \/ \E config \in ConfigInputs : WebhookSetConfig(config)

SpecWebhook == InitWebhook /\ [][NextWebhook]_vars

\* the same manager with flush() called as well
NextWebhookFlush ==
    \/ NextWebhook
    \/ WebhookFlush
    \/ \E j \in 1..Len(flushes) : WebhookFlushSettle(j)

SpecWebhookFlush == InitWebhook /\ [][NextWebhookFlush]_vars

\* the same manager with test() called as well
NextWebhookTest ==
    \/ NextWebhook
    \/ WebhookTest
    \/ \E k \in 1..Len(tests), result \in PostResults : WebhookTestRespond(k, result)

SpecWebhookTest == InitWebhook /\ [][NextWebhookTest]_vars

\* every HTTP call returns and every timer fires
WebhookFairness ==
    /\ \A i \in 1..MaxDeliveries :
           WF_vars(\E result \in PostResults : i <= Len(deliveries) /\ WebhookRespond(i, result))
    /\ \A i \in 1..MaxDeliveries : WF_vars(i <= Len(deliveries) /\ WebhookWake(i))

SpecWebhookFair == SpecWebhook /\ WebhookFairness

Finished(d) == d.pc \in {"sent", "failed"}

\* every attempt of the delivery was a POST that failed
EveryPostFailed(d) ==
    /\ Len(d.attempts) > 0
    /\ \A k \in 1..Len(d.attempts) : d.attempts[k] \in {"non2xx", "transportError"}

\* C10: a finished delivery of a subscribed event whose every attempt was a
\* POST that failed made exactly 3 POSTs, waited 1000 ms and then 2000 ms
\* between them (attempt index times the base delay, nothing after the last
\* attempt), and its notify* call resolved without raising.
C10_BoundedRetry ==
    \A i \in 1..Len(deliveries) :
        LET d == deliveries[i]
        IN  (Finished(d) /\ EveryPostFailed(d)) =>
                /\ Len(d.attempts) = 3
                /\ d.waits = <<1000, 2000>>
                /\ d.notify = "resolved"
                /\ d.pc = "failed"

\* a delivery ran through three failed POSTs and ended
C10_Witness ==
    \E i \in 1..Len(deliveries) :
        /\ Finished(deliveries[i])
        /\ deliveries[i].attempts = <<"non2xx", "transportError", "non2xx">>

\* a notify*(event) call, whichever way it goes
NotifyCall(event) == WebhookNotify(event) \/ WebhookNotifyIgnored(event)

\* the event kind is in the subscribed set of a configuration that is set
Subscribed(event) == webhookConfig # Null /\ event \in webhookConfig.events

\* a notify* call for an event that is not subscribed leaves the pending set
\* and every delivery (so every HTTP attempt) as they were
UnsubscribedNotifyIsNoOp ==
    \A event \in EventKinds :
        (NotifyCall(event) /\ ~Subscribed(event)) => UNCHANGED deliveries

\* a delivery is only ever started for an event subscribed at that moment
StartedOnlyWhenSubscribed ==
    Len(deliveries') > Len(deliveries) =>
        Subscribed(deliveries'[Len(deliveries')].event)

\* C11: a notify* call for an event kind that is not in the subscribed set,
\* or made while no configuration is set, makes no HTTP attempt and adds
\* nothing to the pending set; isEnabledFor(kind) is true exactly when a
\* configuration is set and contains kind.
C11_SubscriptionFilter ==
    /\ [](\A event \in EventKinds : isEnabledFor(event) <=> Subscribed(event))
    /\ [][UnsubscribedNotifyIsNoOp /\ StartedOnlyWhenSubscribed]_vars

\* a configuration that leaves out panic_mode is set, deliveries of the
\* subscribed kind have been started, and none exists for panic_mode
C11_Witness ==
    /\ webhookConfig # Null
    /\ ~isEnabledFor("panic_mode")
    /\ Len(deliveries) > 0
    /\ \A i \in 1..Len(deliveries) : deliveries[i].event = "privacy_changed"

-----------------------------------------------------------------------------
(* utils: the time-window functions.  A time of day "HH:MM" is the pair    *)
(* <<HH, MM>>; a Date is the clock value t.                                 *)

MinutesPerDay == 24 * 60

\* new Date().getDay(): 0 = Sunday .. 6 = Saturday
getCurrentDayOfWeek(t) == (t \div MinutesPerDay) % 7

\* new Date().getHours() * 60 + getMinutes()
getCurrentTimeMinutes(t) == t % MinutesPerDay

parseTimeToMinutes(time) == (time[1] * 60) + time[2]

getDaysForScheduleType(type) ==
    CASE type = "daily" -> {0, 1, 2, 3, 4, 5, 6}
      [] type = "weekdays" -> {1, 2, 3, 4, 5}
      [] type = "weekends" -> {0, 6}
      [] OTHER -> {}

\* the end of the window counts as inside it
isWithinScheduleInclusiveEnd(schedule, t) ==
    LET currentTime == getCurrentTimeMinutes(t)
        startMinutes == parseTimeToMinutes(schedule.startTime)
        endMinutes == parseTimeToMinutes(schedule.endTime)
        applicableDays == IF schedule.type = "custom" THEN schedule.days
                          ELSE getDaysForScheduleType(schedule.type)
    IN  /\ schedule.enabled
        /\ getCurrentDayOfWeek(t) \in applicableDays
        /\ IF startMinutes > endMinutes
           THEN currentTime >= startMinutes \/ currentTime <= endMinutes
           ELSE currentTime >= startMinutes /\ currentTime <= endMinutes

isWithinSchedule(schedule, t) ==
    IF ~schedule.enabled THEN FALSE
    ELSE LET currentDay == getCurrentDayOfWeek(t)
             currentTime == getCurrentTimeMinutes(t)
             applicableDays == IF schedule.type = "custom"
                               THEN schedule.days
                               ELSE getDaysForScheduleType(schedule.type)
             startMinutes == parseTimeToMinutes(schedule.startTime)
             endMinutes == parseTimeToMinutes(schedule.endTime)
         IN  IF currentDay \notin applicableDays THEN FALSE
             ELSE IF startMinutes > endMinutes
                  THEN currentTime >= startMinutes \/ currentTime < endMinutes
                  ELSE currentTime >= startMinutes /\ currentTime < endMinutes

\* types: DEFAULT_SCHEDULE (its settings is the FULL_PRIVACY_SETTINGS object)
DEFAULT_SCHEDULE ==
    [enabled |-> FALSE, type |-> "daily", startTime |-> <<8, 0>>,
     endTime |-> <<22, 0>>, days |-> {0, 1, 2, 3, 4, 5, 6},
     settings |-> FULL_PRIVACY_SETTINGS]

\* a Date: date.setDate(date.getDate() + addDays) followed by
\* date.setHours(Math.floor(minutes / 60), minutes % 60, 0, 0), on now = t
dateAt(t, addDays, minutes) ==
    [date |-> (((t \div MinutesPerDay) + addDays) * MinutesPerDay)
              + ((minutes \div 60) * 60) + (minutes % 60)]

\* getNextScheduleChange(schedule): a Date or null
getNextScheduleChange(schedule, t) ==
    IF ~schedule.enabled THEN Null
    ELSE LET currentDay == getCurrentDayOfWeek(t)
             currentTime == getCurrentTimeMinutes(t)
             applicableDays == IF schedule.type = "custom"
                               THEN schedule.days
                               ELSE getDaysForScheduleType(schedule.type)
             startMinutes == parseTimeToMinutes(schedule.startTime)
             endMinutes == parseTimeToMinutes(schedule.endTime)
             inSchedule == isWithinSchedule(schedule, t)
             \* the loop over i = 0..6: the first applicable day whose start
             \* has not passed
             found == {i \in 0..6 :
                          /\ ((currentDay + i) % 7) \in applicableDays
                          /\ ~(i = 0 /\ currentTime >= startMinutes)}
         IN  IF inSchedule
             THEN IF startMinutes > endMinutes /\ currentTime >= startMinutes
                  THEN dateAt(t, 1, endMinutes)
                  ELSE dateAt(t, 0, endMinutes)
             ELSE IF found = {} THEN Null
                  ELSE dateAt(t, CHOOSE i \in found : \A k \in found : i <= k,
                              startMinutes)

-----------------------------------------------------------------------------
(* The time-window functions on their own: a schedule and an instant, then   *)
(* one call.                                                                 *)

\* times of day around the edges of the windows below
TimesOfDay == {<<0, 0>>, <<5, 59>>, <<6, 0>>, <<7, 59>>, <<8, 0>>,
               <<21, 59>>, <<22, 0>>, <<23, 0>>, <<23, 59>>}

\* every weekday, Sunday to Saturday
WindowInstants == {At(d, time[1], time[2]) : d \in 0..6, time \in TimesOfDay}

WindowEdges == {<<6, 0>>, <<8, 0>>, <<22, 0>>}

\* custom day sets: none, one day, two days, the whole week
DaySets == {{}, {1}, {6}, {0, 3}, 0..6}

ScheduleInputs ==
    [enabled : BOOLEAN,
     type : {"daily", "weekdays", "weekends", "custom"},
     startTime : WindowEdges,
     endTime : WindowEdges,
     days : DaySets,
     settings : {FULL_PRIVACY_SETTINGS}]

InitWindow ==
    /\ now \in WindowInstants
    /\ scheduleArg \in ScheduleInputs
    /\ utilRet = Null
    /\ mixinRet = Null
    /\ frames = <<>>
    /\ lastEdge = NothingSeen
    /\ notifications = <<>>
    /\ turning = <<>>
    /\ InitPolicyIdle
    /\ InitAuditIdle
    /\ InitWebhookIdle

CallIsWithinSchedule ==
    /\ utilRet' = [op |-> "isWithinSchedule", within |-> isWithinSchedule(scheduleArg, now)]
    /\ UNCHANGED <<now, policyVars, auditVars, webhookVars, scheduleArg, mixinRet, frames, lastEdge, notifications, turning>>

CallGetNextScheduleChange ==
    /\ utilRet' = [op |-> "getNextScheduleChange",
                   next |-> getNextScheduleChange(scheduleArg, now)]
    /\ UNCHANGED <<now, policyVars, auditVars, webhookVars, scheduleArg, mixinRet, frames, lastEdge, notifications, turning>>

NextWindow == CallIsWithinSchedule \/ CallGetNextScheduleChange

SpecWindow == InitWindow /\ [][NextWindow]_vars

-----------------------------------------------------------------------------
(* PrivacyMixin, ScheduleManager, PrivacyManagerPlugin, PrivacyProfileDevice *)

\* A settings value held by reference.  aliasManual: the holder points at
\* the camera's config.manualSettings object, so that a write to the manual
\* settings is a write to what the holder sees.  Otherwise the holder has a
\* copy, or points at an object that nothing writes.
ManualRef(w, cameraId) ==
    [aliasManual |-> TRUE, value |-> w.privacyMixins[cameraId].manualSettings]

Own(settings) == [aliasManual |-> FALSE, value |-> settings]

isPanicModeActive(w) == w.pluginSettings.panicMode

\* the first entry of the plugin's profile list that is active and has the
\* camera among its cameraIds
getActiveProfileForCamera(w, cameraId) ==
    LET profiles == w.pluginSettings.profiles
        hits == {i \in 1..Len(profiles) :
                    /\ profiles[i].active
                    /\ \E k \in 1..Len(profiles[i].cameraIds) :
                           profiles[i].cameraIds[k] = cameraId}
    IN  IF hits = {} THEN Null
        ELSE profiles[CHOOSE i \in hits : \A j \in hits : i <= j]

\* ScheduleManager.schedules.get(cameraId)
getEntry(w, cameraId) ==
    LET hits == {i \in 1..Len(w.schedules) : w.schedules[i].cameraId = cameraId}
    IN  IF hits = {} THEN Null ELSE w.schedules[CHOOSE i \in hits : TRUE]

\* entry.schedule: for a camera with a mixin the entry holds the mixin's
\* config.schedule object itself; otherwise the object setSchedule was given
entrySchedule(w, cameraId) ==
    IF cameraId \in DOMAIN w.privacyMixins /\ w.privacyMixins[cameraId] # Null
    THEN w.privacyMixins[cameraId].schedule
    ELSE getEntry(w, cameraId).schedule

\* a schedule lookup that trusts the flag of the last tick
getEffectiveSettingsCached(w, cameraId, baseSettings) ==
    LET entry == getEntry(w, cameraId)
    IN  IF entry = Null \/ ~entrySchedule(w, cameraId).enabled THEN baseSettings
        ELSE IF entry.currentlyActive
             THEN Own(entrySchedule(w, cameraId).settings)
             ELSE baseSettings

\* ScheduleManager.getEffectiveSettings(cameraId, baseSettings)
getEffectiveSettings(w, cameraId, baseSettings) ==
    LET entry == getEntry(w, cameraId)
    IN  IF entry = Null \/ ~entrySchedule(w, cameraId).enabled THEN baseSettings
        ELSE IF isWithinSchedule(entrySchedule(w, cameraId), w.now)
             THEN Own(entrySchedule(w, cameraId).settings)
             ELSE baseSettings

\* a query that reports the flag of the last tick
isScheduleActiveStored(w, cameraId) ==
    LET entry == getEntry(w, cameraId)
    IN  IF entry = Null \/ ~entrySchedule(w, cameraId).enabled THEN FALSE
        ELSE entry.currentlyActive

\* ScheduleManager.isScheduleActive(cameraId)
isScheduleActive(w, cameraId) ==
    LET entry == getEntry(w, cameraId)
    IN  IF entry = Null \/ ~entrySchedule(w, cameraId).enabled THEN FALSE
        ELSE isWithinSchedule(entrySchedule(w, cameraId), w.now)

\* ScheduleManager.getScheduleInfo(cameraId), less the description
getScheduleInfo(w, cameraId) ==
    LET entry == getEntry(w, cameraId)
        schedule == entrySchedule(w, cameraId)
    IN  IF entry = Null
        THEN [schedule |-> Null, isActive |-> FALSE, nextChange |-> Null]
        ELSE [schedule |-> schedule,
              isActive |-> schedule.enabled /\ isWithinSchedule(schedule, w.now),
              nextChange |-> IF schedule.enabled THEN getNextScheduleChange(schedule, w.now)
                             ELSE Null]

\* ScheduleManager.getActiveSchedules(): the subjects in insertion order
getActiveSchedules(w) ==
    LET active == SelectSeq(w.schedules,
                      LAMBDA e : /\ entrySchedule(w, e.cameraId).enabled
                                 /\ isWithinSchedule(entrySchedule(w, e.cameraId), w.now))
    IN  [i \in 1..Len(active) |-> active[i].cameraId]

\* a resolver that looks at the camera's enabled flag before panic mode
calculateEffectiveSettingsEnabledFirst(w, cameraId) ==
    LET config == w.privacyMixins[cameraId]
        scheduleSettings ==
            IF w.managers
            THEN getEffectiveSettings(w, cameraId, ManualRef(w, cameraId))
            ELSE ManualRef(w, cameraId)
        activeProfile == getActiveProfileForCamera(w, cameraId)
    IN  IF ~config.enabled THEN Own(w.DEFAULT_PRIVACY_SETTINGS)
        ELSE IF isPanicModeActive(w) THEN Own(FULL_PRIVACY_SETTINGS)
        ELSE IF activeProfile # Null THEN Own(activeProfile.settings)
        ELSE scheduleSettings

\* PrivacyMixin.calculateEffectiveSettings()
calculateEffectiveSettings(w, cameraId) ==
    LET config == w.privacyMixins[cameraId]
        scheduleSettings ==
            IF w.managers
            THEN getEffectiveSettings(w, cameraId, ManualRef(w, cameraId))
            ELSE ManualRef(w, cameraId)
        activeProfile == getActiveProfileForCamera(w, cameraId)
    IN  IF isPanicModeActive(w) THEN Own(FULL_PRIVACY_SETTINGS)
        ELSE IF ~config.enabled THEN Own(w.DEFAULT_PRIVACY_SETTINGS)
        ELSE IF activeProfile # Null THEN Own(activeProfile.settings)
        ELSE scheduleSettings

\* a call webhookManager?.notify*(...): the event of the payload, the camera
\* (0 when the payload names none) and the trigger
notifyCall(w, event, cameraId, trigger) ==
    IF ~w.managers THEN w
    ELSE [w EXCEPT !.notified = Append(@, [event |-> event, cameraId |-> cameraId,
                                            trigger |-> trigger])]

\* PrivacyManagerPlugin.onCameraSettingsChanged(cameraId, cameraName, previous, new)
onCameraSettingsChanged(w, cameraId) ==
    notifyCall(w, "privacy_changed", cameraId, "manual")

\* PrivacyMixin.updateEffectiveSettings(): when the JSON of the value changed
\* the plugin is told through onCameraSettingsChanged
updateEffectiveSettings(w, cameraId) ==
    LET previous == w.effectiveSettings[cameraId]
        w1 == [w EXCEPT !.effectiveSettings[cameraId] = calculateEffectiveSettings(w, cameraId)]
    IN  IF previous.value # w1.effectiveSettings[cameraId].value
        THEN onCameraSettingsChanged(w1, cameraId)
        ELSE w1

RECURSIVE updateMixins(_, _)
\* updateEffectiveSettings() on the mixins of the given cameras, one by one
updateMixins(w, cameraIds) ==
    LET mixins == {c \in CameraIds : c \in cameraIds /\ w.privacyMixins[c] # Null}
    IN  IF mixins = {} THEN w
        ELSE LET c == CHOOSE x \in mixins : \A y \in mixins : x <= y
             IN  updateMixins(updateEffectiveSettings(w, c), cameraIds \ {c})

\* a gate that closes on blockRecording, as for a recorder destination
getVideoStreamByRecording(w, cameraId) ==
    IF w.effectiveSettings[cameraId].value.blockRecording THEN "throws" ELSE "mixinDevice"

\* PrivacyMixin.getVideoStream(options): throws, or hands the call on to
\* the wrapped device
getVideoStream(w, cameraId) ==
    IF w.effectiveSettings[cameraId].value.blockStreaming THEN "throws" ELSE "mixinDevice"

\* PrivacyMixin.getVideoStreamOptions(): [], or what the wrapped device gives
getVideoStreamOptions(w, cameraId) ==
    IF w.effectiveSettings[cameraId].value.blockStreaming THEN "empty" ELSE "mixinDevice"

\* PrivacyMixin.takePicture(options)
takePicture(w, cameraId) ==
    IF w.effectiveSettings[cameraId].value.blockStreaming THEN "throws" ELSE "mixinDevice"

\* PrivacyMixin.getPictureOptions()
getPictureOptions(w, cameraId) ==
    IF w.effectiveSettings[cameraId].value.blockStreaming THEN "empty" ELSE "mixinDevice"

\* PrivacyManagerPlugin.onScheduleTriggered(cameraId, _settings, reason)
onScheduleTriggered(w, cameraId) ==
    IF w.privacyMixins[cameraId] = Null THEN w
    ELSE LET w1 == updateEffectiveSettings(w, cameraId)
             w2 == log(w1, [Entry(cameraId, "schedule", w1.effectiveSettings[cameraId].value)
                               EXCEPT !.alias = IF w1.effectiveSettings[cameraId].aliasManual
                                                THEN Alias("manual", cameraId) ELSE NoAlias])
         IN  notifyCall(w2, "schedule_triggered", cameraId, "schedule")

\* the callbacks: the plugin's own, registered by initialize(), and two
\* callbacks of other callers of onScheduleChange(), one of which throws
PluginCallback == "onScheduleTriggered"

OtherCallbacks == {"observer", "faulty"}

\* ScheduleManager.stop()
stop(w) ==
    IF w.checkInterval # Null
    THEN [w EXCEPT !.intervals = @ \ {w.checkInterval.id}, !.checkInterval = Null]
    ELSE w

\* callback(cameraId, settings, reason) inside try { } catch { console.error };
\* the callback "stopper" of another caller calls stop() on the manager
invoke(w, callback, cameraId, settings, reason) ==
    LET w1 == [w EXCEPT !.calls = Append(@, [callback |-> callback, cameraId |-> cameraId,
                                             settings |-> settings, reason |-> reason])]
    IN  IF callback = PluginCallback THEN onScheduleTriggered(w1, cameraId)
        ELSE IF callback = "stopper" THEN stop(w1)
        ELSE w1

RECURSIVE fireCallbacksUnguardedFrom(_, _, _, _, _)
\* a loop without the try block: the first callback that throws ends it
fireCallbacksUnguardedFrom(w, cameraId, settings, reason, k) ==
    IF k > Len(w.callbacks) THEN w
    ELSE IF w.callbacks[k] = "faulty"
         THEN invoke(w, w.callbacks[k], cameraId, settings, reason)
         ELSE fireCallbacksUnguardedFrom(invoke(w, w.callbacks[k], cameraId, settings, reason),
                                         cameraId, settings, reason, k + 1)

RECURSIVE fireCallbacksFrom(_, _, _, _, _)
\* for (const callback of this.callbacks) { try { callback(...) } catch ... },
\* from the k-th callback on
fireCallbacksFrom(w, cameraId, settings, reason, k) ==
    IF k > Len(w.callbacks) THEN w
    ELSE fireCallbacksFrom(invoke(w, w.callbacks[k], cameraId, settings, reason),
                           cameraId, settings, reason, k + 1)

fireCallbacks(w, cameraId, settings, reason) ==
    fireCallbacksFrom(w, cameraId, settings, reason, 1)

\* ScheduleManager.onScheduleChange(callback): this.callbacks.add(callback)
onScheduleChange(w, callback) ==
    IF \E k \in 1..Len(w.callbacks) : w.callbacks[k] = callback THEN w
    ELSE [w EXCEPT !.callbacks = Append(@, callback)]

\* this.schedules.set(cameraId, entry): a known key keeps its place
putEntry(entries, entry) ==
    IF \E i \in 1..Len(entries) : entries[i].cameraId = entry.cameraId
    THEN [i \in 1..Len(entries) |->
             IF entries[i].cameraId = entry.cameraId THEN entry ELSE entries[i]]
    ELSE Append(entries, entry)

\* a registration that fires whenever the new schedule is active
setScheduleAlwaysFires(w, cameraId, schedule) ==
    LET isActive == schedule.enabled /\ isWithinSchedule(schedule, w.now)
        w1 == [w EXCEPT !.schedules =
                  putEntry(@, [cameraId |-> cameraId, schedule |-> schedule,
                               currentlyActive |-> isActive])]
    IN  IF isActive THEN fireCallbacks(w1, cameraId, schedule.settings, "schedule_start")
        ELSE w1

\* ScheduleManager.setSchedule(cameraId, schedule)
setSchedule(w, cameraId, schedule) ==
    LET entry == getEntry(w, cameraId)
        wasActive == IF entry = Null THEN FALSE ELSE entry.currentlyActive
        isActive == schedule.enabled /\ isWithinSchedule(schedule, w.now)
        w1 == [w EXCEPT !.schedules =
                  putEntry(@, [cameraId |-> cameraId, schedule |-> schedule,
                               currentlyActive |-> isActive])]
    IN  IF schedule.enabled /\ isActive /\ ~wasActive
        THEN fireCallbacks(w1, cameraId, schedule.settings, "schedule_start")
        ELSE w1

\* a removal that only clears the stored flag
removeScheduleKeepsEntry(w, cameraId) ==
    [w EXCEPT !.schedules =
        [i \in 1..Len(@) |-> IF @[i].cameraId = cameraId
                             THEN [@[i] EXCEPT !.currentlyActive = FALSE]
                             ELSE @[i]]]

\* ScheduleManager.removeSchedule(cameraId)
removeSchedule(w, cameraId) ==
    [w EXCEPT !.schedules = SelectSeq(@, LAMBDA e : e.cameraId # cameraId)]

RECURSIVE checkSchedulesFrom(_, _)
\* the loop of checkSchedules(), from the i-th entry on
checkSchedulesFrom(w, i) ==
    IF i > Len(w.schedules) THEN w
    ELSE LET entry == w.schedules[i]
             schedule == entrySchedule(w, entry.cameraId)
             isActive == isWithinSchedule(schedule, w.now)
         IN  IF ~schedule.enabled \/ entry.currentlyActive = isActive
             THEN checkSchedulesFrom(w, i + 1)
             ELSE checkSchedulesFrom(
                      fireCallbacks([w EXCEPT !.schedules[i].currentlyActive = isActive],
                                    entry.cameraId,
                                    IF isActive THEN schedule.settings
                                    ELSE w.DEFAULT_PRIVACY_SETTINGS,
                                    IF isActive THEN "schedule_start" ELSE "schedule_end"),
                      i + 1)

\* ScheduleManager.checkSchedules()
checkSchedules(w) == checkSchedulesFrom(w, 1)

\* the body of the loop of checkSchedules() for the i-th entry, up to its
\* callbacks: whether the flag flipped, and the state with the flag stored
checkEntry(w, i) ==
    LET entry == w.schedules[i]
        schedule == entrySchedule(w, entry.cameraId)
        isActive == isWithinSchedule(schedule, w.now)
    IN  IF ~schedule.enabled \/ entry.currentlyActive = isActive
        THEN [changed |-> FALSE, w |-> w]
        ELSE [changed |-> TRUE, w |-> [w EXCEPT !.schedules[i].currentlyActive = isActive]]

\* a checkSchedules() that awaits what each callback returns
awaitsEvery(callback) == TRUE

\* checkSchedules() calls the callback and goes on: it awaits nothing, and
\* so never hands control back to the host before it returns
awaits(callback) == FALSE

\* setInterval(() => this.checkSchedules(), checkIntervalMs): a new live timer
setInterval(w) ==
    LET id == Cardinality(w.intervals) + 1
    IN  [w EXCEPT !.intervals = @ \cup {id}, !.checkInterval = [id |-> id]]

\* start() without the early return of a manager that is started already
startUnguarded(w) == checkSchedules(setInterval(w))

\* ScheduleManager.start()
start(w) ==
    IF w.checkInterval # Null THEN w
    ELSE checkSchedules(setInterval(w))

\* a write to config.manualSettings: seen by every holder of the object
setManual(w, cameraId, settings) ==
    writeThrough(
        [w EXCEPT !.privacyMixins[cameraId].manualSettings = settings,
                  !.effectiveSettings[cameraId] =
                      IF @.aliasManual THEN [@ EXCEPT !.value = settings] ELSE @],
        Alias("manual", cameraId), settings)

\* value.split(',').map(d => parseInt(d.trim(), 10)).filter(d => d >= 0 && d <= 6),
\* the string being the sequence of its numbers
parseDays(value) == {value[k] : k \in {j \in 1..Len(value) : value[j] >= 0 /\ value[j] <= 6}}

\* PrivacyMixin.putSetting('privacy:' + key, value)
mixinPutSetting(w, cameraId, key, value) ==
    LET config == w.privacyMixins[cameraId]
        previousSettings == config.manualSettings
        w1 == CASE key = "enabled" ->
                     [w EXCEPT !.privacyMixins[cameraId].enabled = value]
                [] key = "scheduleEnabled" ->
                     LET w0 == [w EXCEPT !.privacyMixins[cameraId].schedule.enabled = value]
                     IN  IF value /\ w.managers
                         THEN setSchedule(w0, cameraId, w0.privacyMixins[cameraId].schedule)
                         ELSE IF w.managers THEN removeSchedule(w0, cameraId)
                         ELSE w0
                [] key = "scheduleType" ->
                     LET w0 == [w EXCEPT !.privacyMixins[cameraId].schedule =
                                   [@ EXCEPT !.type = value,
                                             !.days = IF value # "custom"
                                                      THEN getDaysForScheduleType(value)
                                                      ELSE @]]
                     IN  IF w0.privacyMixins[cameraId].schedule.enabled /\ w.managers
                         THEN setSchedule(w0, cameraId, w0.privacyMixins[cameraId].schedule)
                         ELSE w0
                [] key = "scheduleDays" ->
                     LET w0 == [w EXCEPT !.privacyMixins[cameraId].schedule.days =
                                             parseDays(value)]
                     IN  IF w0.privacyMixins[cameraId].schedule.enabled /\ w.managers
                         THEN setSchedule(w0, cameraId, w0.privacyMixins[cameraId].schedule)
                         ELSE w0
                [] OTHER ->
                     setManual(w, cameraId, [config.manualSettings EXCEPT ![key] = value])
        w2 == updateEffectiveSettings(w1, cameraId)
        manualSettings == w2.privacyMixins[cameraId].manualSettings
    IN  IF previousSettings # manualSettings /\ w2.managers
        THEN log(w2, [Entry(cameraId, "manual", manualSettings)
                          EXCEPT !.alias = Alias("manual", cameraId)])
        ELSE w2

\* new PrivacyMixin(options, plugin) and privacyMixins.set(id, mixin).
\* Nothing is stored for the camera yet, so the config is the default one:
\* its schedule is disabled and the constructor registers nothing with the
\* schedule manager.
getMixin(w, cameraId) ==
    LET defaultConfig == [enabled |-> TRUE,
                          manualSettings |-> w.DEFAULT_PRIVACY_SETTINGS,
                          schedule |-> DEFAULT_SCHEDULE]
        w1 == [w EXCEPT !.privacyMixins[cameraId] = defaultConfig]
    IN  [w1 EXCEPT !.effectiveSettings[cameraId] = calculateEffectiveSettings(w1, cameraId)]

\* PrivacyManagerPlugin.initializePlugin(), up to the first await of
\* initialize().  Nothing is stored yet, so loadPluginSettings() returns
\* DEFAULT_PLUGIN_SETTINGS itself, whose defaultSettings is the
\* DEFAULT_PRIVACY_SETTINGS object.
initializePlugin(w) ==
    [w EXCEPT !.managers = TRUE,
              !.logCache = Null,
              !.retentionDays = DEFAULT_RETENTION_DAYS]

\* PrivacyManagerPlugin.initialize(), after discoverDevices(): start() with
\* its first checkSchedules(), then the callback is registered, then
\* applyRetention()
initialize(w) ==
    LET w1 == start(w)
        w2 == onScheduleChange(w1, PluginCallback)
        w3 == applyRetention(w2)
    IN  [w3 EXCEPT !.initialized = TRUE]

\* PanicModeDevice.syncState(panicActive), when the device exists
syncState(w, panicActive) ==
    IF w.panicModeDevice = Null THEN w
    ELSE [w EXCEPT !.panicModeDevice = [on |-> panicActive]]

\* PrivacyManagerPlugin.setPanicMode(enabled)
setPanicMode(w, enabled) ==
    IF w.pluginSettings.panicMode = enabled THEN w
    ELSE LET w1 == syncState([w EXCEPT !.pluginSettings.panicMode = enabled], enabled)
             w2 == updateMixins(w1, CameraIds)
         IN  IF ~w2.managers THEN w2
             ELSE notifyCall(
                      log(w2, IF enabled THEN Entry(0, "panic", FULL_PRIVACY_SETTINGS)
                              ELSE [Entry(0, "panic", w2.DEFAULT_PRIVACY_SETTINGS)
                                       EXCEPT !.alias = Alias("default", 0)]),
                      "panic_mode", 0, "manual")

\* PrivacyManagerPlugin.getDevice(PANIC_MODE_NATIVE_ID): new PanicModeDevice,
\* whose on state is isPanicModeActive()
getPanicDevice(w) ==
    IF w.panicModeDevice # Null THEN w
    ELSE [w EXCEPT !.panicModeDevice = [on |-> isPanicModeActive(w)]]

\* PanicModeDevice.turnOn() / turnOff(), second statement: this.on = on
turned(w, on) == [w EXCEPT !.panicModeDevice = [on |-> on]]

\* what the notify*() calls of a handler add to the manager's requests: a
\* call for a subscribed event goes through send() to sendWithRetry()
RECURSIVE submit(_, _)
submit(ds, notified) ==
    IF notified = <<>> THEN ds
    ELSE submit(IF isEnabledFor(Head(notified).event)
                THEN Append(ds, doSend([event |-> Head(notified).event, attempt |-> 1,
                                        attempts |-> <<>>, waits |-> <<>>, pc |-> "start",
                                        pending |-> TRUE, notify |-> "awaiting"]))
                ELSE ds,
                Tail(notified))

\* PrivacyManagerPlugin.putSetting('default' + key, value): a write to
\* pluginSettings.defaultSettings, which is the DEFAULT_PRIVACY_SETTINGS object
putSettingDefault(w, key, value) ==
    writeThrough([w EXCEPT !.DEFAULT_PRIVACY_SETTINGS[key] = value],
                 Alias("default", 0),
                 [w.DEFAULT_PRIVACY_SETTINGS EXCEPT ![key] = value])

\* PrivacyManagerPlugin.createDevice(settings): the next native id
createDevice(w) ==
    [w EXCEPT !.pluginSettings.profiles =
        Append(@, [id |-> Len(@) + 1, cameraIds |-> <<>>,
                   settings |-> FULL_PRIVACY_SETTINGS, active |-> FALSE])]

\* PrivacyManagerPlugin.getDevice(nativeId): new PrivacyProfileDevice, whose
\* profile is read from the device's own storage (nothing stored: the default)
getDevice(w, nativeId) ==
    IF w.profileDevices[nativeId] # Null THEN w
    ELSE [w EXCEPT !.profileDevices[nativeId] =
             [id |-> nativeId, cameraIds |-> <<>>,
              settings |-> FULL_PRIVACY_SETTINGS, active |-> FALSE]]

\* the cameras of a cameraIds array
Members(cameraIds) == {cameraIds[k] : k \in 1..Len(cameraIds)}

\* a turnOff() that clears the flag and re-evaluates no camera
turnOffStale(w, nativeId) ==
    IF ~w.profileDevices[nativeId].active THEN w
    ELSE [w EXCEPT !.profileDevices[nativeId].active = FALSE]

\* PrivacyProfileDevice.turnOff()
turnOff(w, nativeId) ==
    IF ~w.profileDevices[nativeId].active THEN w
    ELSE updateMixins([w EXCEPT !.profileDevices[nativeId].active = FALSE],
                      Members(w.profileDevices[nativeId].cameraIds))

RECURSIVE deactivateAllProfilesFrom(_, _)
\* the loop of deactivateAllProfiles(), from the i-th list entry on
deactivateAllProfilesFrom(w, i) ==
    IF i > Len(w.pluginSettings.profiles) THEN w
    ELSE LET profile == w.pluginSettings.profiles[i]
         IN  IF ~profile.active THEN deactivateAllProfilesFrom(w, i + 1)
             ELSE LET w1 == [w EXCEPT !.pluginSettings.profiles[i].active = FALSE]
                      w2 == IF w1.profileDevices[profile.id] # Null
                            THEN turnOff(w1, profile.id)
                            ELSE w1
                  IN  deactivateAllProfilesFrom(w2, i + 1)

\* PrivacyManagerPlugin.deactivateAllProfiles()
deactivateAllProfiles(w) == deactivateAllProfilesFrom(w, 1)

RECURSIVE logProfileActivations(_, _, _)
\* the audit loop of turnOn(): one entry per camera of the profile
logProfileActivations(w, profile, k) ==
    IF k > Len(profile.cameraIds) THEN w
    ELSE logProfileActivations(
             log(w, [Entry(profile.cameraIds[k], "profile", profile.settings)
                        EXCEPT !.alias = Alias("profile", profile.id)]),
             profile, k + 1)

\* PrivacyProfileDevice.turnOn()
turnOn(w, nativeId) ==
    IF w.profileDevices[nativeId].active THEN w
    ELSE LET w1 == deactivateAllProfiles(w)
             w2 == [w1 EXCEPT !.profileDevices[nativeId].active = TRUE]
             profile == w2.profileDevices[nativeId]
             w3 == updateMixins(w2, Members(profile.cameraIds))
         IN  logProfileActivations(notifyCall(w3, "profile_activated", 0, "manual"),
                                   profile, 1)

\* PrivacyProfileDevice.putSetting(key, value)
profilePutSetting(w, nativeId, key, value) ==
    LET w1 == IF key = "profileCameras"
              THEN [w EXCEPT !.profileDevices[nativeId].cameraIds = value]
              ELSE writeThrough([w EXCEPT !.profileDevices[nativeId].settings[key] = value],
                                Alias("profile", nativeId),
                                [w.profileDevices[nativeId].settings EXCEPT ![key] = value])
        profile == w1.profileDevices[nativeId]
    IN  IF profile.active THEN updateMixins(w1, Members(profile.cameraIds)) ELSE w1

-----------------------------------------------------------------------------
(* The plugin as a whole: a fresh install, one Monday.  The host attaches   *)
(* mixins once the deferred initializePlugin() has run; the users' calls    *)
(* (panic mode, defaults, profiles, the audit log) come after initialize(). *)

\* Monday 07:59, 08:00 (the default window opens) and 22:00 (it closes)
ClockInstants == {At(1, 7, 59), At(1, 8, 0), At(1, 22, 0)}

MixinKeys == {"enabled", "blockRecording", "scheduleEnabled"}

DefaultKeys == {"blockRecording"}

ProfileKeys == {"blockStreaming"}

\* values of the profileCameras setting
CameraLists ==
    {<<>>} \cup {<<c>> : c \in CameraIds}
           \cup {<<p[1], p[2]>> : p \in {q \in CameraIds \X CameraIds : q[1] < q[2]}}

Init ==
    /\ now \in ClockInstants
    /\ InitPolicyIdle
    /\ InitAuditIdle
    /\ InitWebhookIdle
    /\ InitUtilIdle

\* the audit log of the run is kept within MaxAuditLen entries
Do(w) ==
    /\ Len(getLogs(w)) <= MaxAuditLen
    /\ Commit(w)
    /\ UNCHANGED <<webhookVars, utilVars>>

InitializePlugin ==
    /\ ~managers
    /\ Do(initializePlugin(World))

Initialize ==
    /\ managers /\ ~initialized
    /\ Do(initialize(World))

GetMixin(cameraId) ==
    /\ managers
    /\ privacyMixins[cameraId] = Null
    /\ Do(getMixin(World, cameraId))

MixinPutSetting(cameraId, key, value) ==
    /\ managers
    /\ privacyMixins[cameraId] # Null
    /\ Do(mixinPutSetting(World, cameraId, key, value))

SetPanicMode(enabled) ==
    /\ initialized
    /\ Do(setPanicMode(World, enabled))

PutSettingDefault(key, value) ==
    /\ initialized
    /\ Do(putSettingDefault(World, key, value))

ClearAuditLog ==
    /\ initialized
    /\ Do(clearLogs(World))

CreateDevice ==
    /\ initialized
    /\ Len(pluginSettings.profiles) < MaxProfiles
    /\ Do(createDevice(World))

GetDevice(nativeId) ==
    /\ initialized
    /\ nativeId <= Len(pluginSettings.profiles)
    /\ profileDevices[nativeId] = Null
    /\ Do(getDevice(World, nativeId))

ProfilePutSetting(nativeId, key, value) ==
    /\ profileDevices[nativeId] # Null
    /\ Do(profilePutSetting(World, nativeId, key, value))

ProfileTurnOn(nativeId) ==
    /\ profileDevices[nativeId] # Null
    /\ Do(turnOn(World, nativeId))

ProfileTurnOff(nativeId) ==
    /\ profileDevices[nativeId] # Null
    /\ Do(turnOff(World, nativeId))

\* the interval timer of the schedule manager fires
Tick ==
    /\ initialized
    /\ intervals # {}
    /\ Do(checkSchedules(World))

AdvanceClock(t) ==
    /\ t > now
    /\ Do([World EXCEPT !.now = t])

Next ==
    \/ InitializePlugin
    \/ Initialize
    \/ \E cameraId \in CameraIds : GetMixin(cameraId)
    \/ \E cameraId \in CameraIds, key \in MixinKeys, value \in BOOLEAN :
           MixinPutSetting(cameraId, key, value)
    \/ \E enabled \in BOOLEAN : SetPanicMode(enabled)
    \/ \E key \in DefaultKeys, value \in BOOLEAN : PutSettingDefault(key, value)
    \/ ClearAuditLog
    \/ CreateDevice
    \/ \E nativeId \in ProfileIds : GetDevice(nativeId)
    \/ \E nativeId \in ProfileIds, value \in CameraLists :
           ProfilePutSetting(nativeId, "profileCameras", value)
    \/ \E nativeId \in ProfileIds, key \in ProfileKeys, value \in BOOLEAN :
           ProfilePutSetting(nativeId, key, value)
    \/ \E nativeId \in ProfileIds : ProfileTurnOn(nativeId)
    \/ \E nativeId \in ProfileIds : ProfileTurnOff(nativeId)
    \/ Tick
    \/ \E t \in ClockInstants : AdvanceClock(t)

Spec == Init /\ [][Next]_vars

\* The camera interfaces of the mixins, called by the host while the
\* plugin's policy changes.
MixinCalls == {"getVideoStream", "getVideoStreamOptions", "takePicture", "getPictureOptions"}

MixinCall(cameraId, op) ==
    /\ privacyMixins[cameraId] # Null
    /\ mixinRet' = [op |-> op, cameraId |-> cameraId,
                    result |-> CASE op = "getVideoStream" -> getVideoStream(World, cameraId)
                                 [] op = "getVideoStreamOptions" -> getVideoStreamOptions(World, cameraId)
                                 [] op = "takePicture" -> takePicture(World, cameraId)
                                 [] OTHER -> getPictureOptions(World, cameraId)]
    /\ UNCHANGED <<now, policyVars, auditVars, webhookVars, scheduleArg, utilRet, frames, lastEdge, notifications, turning>>

NextGate ==
    \/ InitializePlugin
    \/ Initialize
    \/ \E cameraId \in CameraIds : GetMixin(cameraId)
    \/ \E cameraId \in CameraIds, key \in MixinKeys \cup {"blockStreaming"}, value \in BOOLEAN :
           MixinPutSetting(cameraId, key, value)
    \/ \E enabled \in BOOLEAN : SetPanicMode(enabled)
    \/ Tick
    \/ \E t \in ClockInstants : AdvanceClock(t)
    \/ \E cameraId \in CameraIds, op \in MixinCalls : MixinCall(cameraId, op)

SpecGate == Init /\ [][NextGate]_vars

\* The schedule settings of a mixin edited from its settings page.
ScheduleTypes == {"daily", "weekdays", "weekends", "custom"}

\* values of the scheduleDays setting: "", "1", "0,3", "6,7"
DayStrings == {<<>>, <<1>>, <<0, 3>>, <<6, 7>>}

NextMixinSchedule ==
    \/ InitializePlugin
    \/ Initialize
    \/ \E cameraId \in CameraIds : GetMixin(cameraId)
    \/ \E cameraId \in CameraIds, value \in BOOLEAN :
           MixinPutSetting(cameraId, "scheduleEnabled", value)
    \/ \E cameraId \in CameraIds, value \in ScheduleTypes :
           MixinPutSetting(cameraId, "scheduleType", value)
    \/ \E cameraId \in CameraIds, value \in DayStrings :
           MixinPutSetting(cameraId, "scheduleDays", value)
    \/ ClearAuditLog
    \/ Tick
    \/ \E t \in ClockInstants : AdvanceClock(t)

SpecMixinSchedule == Init /\ [][NextMixinSchedule]_vars

\* The plugin with the notify*() calls of each handler kept: a fresh install
\* with one camera, its schedule, panic mode and one profile.
Notified(w) ==
    /\ Len(getLogs(w)) <= MaxAuditLen
    /\ Commit(w)
    /\ notifications' = w.notified
    /\ UNCHANGED <<webhookVars, scheduleArg, utilRet, mixinRet, frames, lastEdge, turning>>

NotifyInitializePlugin ==
    /\ ~managers
    /\ Notified(initializePlugin(World))

NotifyInitialize ==
    /\ managers /\ ~initialized
    /\ Notified(initialize(World))

NotifyGetMixin(cameraId) ==
    /\ initialized
    /\ privacyMixins[cameraId] = Null
    /\ Notified(getMixin(World, cameraId))

NotifyMixinPutSetting(cameraId, key, value) ==
    /\ privacyMixins[cameraId] # Null
    /\ Notified(mixinPutSetting(World, cameraId, key, value))

NotifySetPanicMode(enabled) ==
    /\ initialized
    /\ Notified(setPanicMode(World, enabled))

NotifyClearAuditLog ==
    /\ initialized
    /\ getLogs(World) # <<>>
    /\ Notified(clearLogs(World))

\* createDevice(settings), then the getDevice(nativeId) the host makes for the
\* device it was told of
NotifyCreateDevice ==
    /\ initialized
    /\ Len(pluginSettings.profiles) < 1
    /\ Notified(getDevice(createDevice(World), 1))

NotifyProfilePutSetting(nativeId, key, value) ==
    /\ profileDevices[nativeId] # Null
    /\ Notified(profilePutSetting(World, nativeId, key, value))

NotifyProfileTurnOn(nativeId) ==
    /\ profileDevices[nativeId] # Null
    /\ Notified(turnOn(World, nativeId))

NotifyProfileTurnOff(nativeId) ==
    /\ profileDevices[nativeId] # Null
    /\ Notified(turnOff(World, nativeId))

NotifyGetPanicDevice ==
    /\ initialized
    /\ panicModeDevice = Null
    /\ Notified(getPanicDevice(World))

\* the plugin with a webhook: a handler's notify*() calls become requests of
\* the webhook manager, and an await of such a request ends when the request
\* is settled
Submitted(w, waiting) ==
    /\ Len(getLogs(w)) <= MaxAuditLen
    /\ Len(submit(deliveries, w.notified)) <= MaxDeliveries
    /\ Commit(w)
    /\ notifications' = w.notified
    /\ deliveries' = submit(deliveries, w.notified)
    /\ turning' = waiting
    /\ UNCHANGED <<webhookConfig, flushes, tests, scheduleArg, utilRet, mixinRet, frames, lastEdge>>

PanicSetPanicMode(enabled) ==
    /\ initialized
    /\ Submitted(setPanicMode(World, enabled), turning)

\* turnOn() / turnOff() up to the end of its await: setPanicMode(on) returns
\* at once, or after its log, or waits for the panic_mode request, which is
\* the last the handler submits
PanicTurnBegin(on) ==
    /\ panicModeDevice # Null
    /\ LET w == setPanicMode(World, on)
           request == Len(submit(deliveries, w.notified))
       IN  IF pluginSettings.panicMode # on /\ isEnabledFor("panic_mode")
           THEN /\ Len(turning) < MaxTurning
                /\ Submitted(w, Append(turning, [on |-> on, request |-> request]))
           ELSE Submitted(turned(w, on), turning)

\* the request a turnOn() / turnOff() waits for is settled: this.on = on
PanicTurnEnd(k) ==
    /\ deliveries[turning[k].request].notify = "resolved"
    /\ panicModeDevice' = [on |-> turning[k].on]
    /\ turning' = SubSeq(turning, 1, k - 1) \o SubSeq(turning, k + 1, Len(turning))
    /\ notifications' = <<>>
    /\ UNCHANGED <<now, DEFAULT_PRIVACY_SETTINGS, pluginSettings, managers, initialized,
                   callbacks, calls, schedules, checkInterval, intervals, privacyMixins,
                   effectiveSettings, profileDevices, auditVars, webhookVars,
                   scheduleArg, utilRet, mixinRet, frames, lastEdge>>

\* the webhook settings of the run: none, or one that subscribes panic_mode
PanicConfigs == {c \in ConfigInputs : c = Null \/ c.events = {"panic_mode"}}

\* PrivacyManagerPlugin.updateWebhookConfig(updates), after putSetting of
\* 'webhookUrl' / 'webhookEvents': webhookManager.setConfig(webhook | null)
PanicSetConfig(config) ==
    /\ managers
    /\ WebhookSetConfig(config)

NextPanic ==
    \/ NotifyInitializePlugin
    \/ NotifyInitialize
    \/ \E cameraId \in CameraIds : NotifyGetMixin(cameraId)
    \/ NotifyGetPanicDevice
    \/ NotifyClearAuditLog
    \/ \E config \in PanicConfigs : PanicSetConfig(config)
    \/ \E enabled \in BOOLEAN : PanicSetPanicMode(enabled)
    \/ \E on \in BOOLEAN : PanicTurnBegin(on)
    \/ \E k \in 1..Len(turning) : PanicTurnEnd(k)
    \/ \E i \in 1..Len(deliveries) : WebhookRespond(i, "2xx")

SpecPanic == Init /\ [][NextPanic]_vars

NotifyTick ==
    /\ initialized
    /\ intervals # {}
    /\ Notified(checkSchedules(World))

NotifyAdvanceClock(t) ==
    /\ t > now
    /\ Notified([World EXCEPT !.now = t])

NextNotify ==
    \/ NotifyInitializePlugin
    \/ NotifyInitialize
    \/ \E cameraId \in CameraIds : NotifyGetMixin(cameraId)
    \/ \E cameraId \in CameraIds, key \in MixinKeys, value \in BOOLEAN :
           NotifyMixinPutSetting(cameraId, key, value)
    \/ \E enabled \in BOOLEAN : NotifySetPanicMode(enabled)
    \/ NotifyGetPanicDevice
    \/ NotifyClearAuditLog
    \/ NotifyCreateDevice
    \/ \E value \in CameraLists : NotifyProfilePutSetting(1, "profileCameras", value)
    \/ NotifyProfileTurnOn(1)
    \/ NotifyProfileTurnOff(1)
    \/ NotifyTick
    \/ \E t \in ClockInstants : NotifyAdvanceClock(t)

SpecNotify == Init /\ [][NextNotify]_vars

\* the same plugin over a store that rejects every write of the audit log
InitStoreFaults ==
    /\ now \in ClockInstants
    /\ InitPolicyIdle
    /\ logCache = Null
    /\ auditStorage = NoItem
    /\ retentionDays = DEFAULT_RETENTION_DAYS
    /\ auditRet = [op |-> "none", removed |-> 0]
    /\ setItemThrows = TRUE
    /\ auditRaised = FALSE
    /\ InitWebhookIdle
    /\ InitUtilIdle

SpecStoreFaults == InitStoreFaults /\ [][Next]_vars

-----------------------------------------------------------------------------
(* The schedule manager on its own, driven through its public methods by a  *)
(* caller that registers callbacks and schedules; the plugin's settings     *)
(* page writes to the shared DEFAULT_PRIVACY_SETTINGS object meanwhile.     *)

ScheduleSubjects == 1..(NumCameras + 1)

ScheduleInstants == {At(1, 7, 59), At(1, 8, 0), At(1, 9, 0), At(1, 22, 0)}

\* daily 08:00-22:00 blocking everything, enabled or not, and daily
\* 09:00-22:00 blocking recording only
ScheduleArgs ==
    {[enabled |-> e, type |-> "daily", startTime |-> <<8, 0>>, endTime |-> <<22, 0>>,
      days |-> 0..6, settings |-> FULL_PRIVACY_SETTINGS] : e \in BOOLEAN}
    \cup {[enabled |-> TRUE, type |-> "daily", startTime |-> <<9, 0>>, endTime |-> <<22, 0>>,
           days |-> 0..6, settings |-> Settings(TRUE, FALSE, FALSE, FALSE, FALSE)]}

InitSchedule ==
    /\ now \in ScheduleInstants
    /\ InitPolicyIdle
    /\ InitAuditIdle
    /\ InitWebhookIdle
    /\ InitUtilIdle

SchedOnScheduleChange(callback) ==
    /\ \A k \in 1..Len(callbacks) : callbacks[k] # callback
    /\ Commit(onScheduleChange(World, callback))
    /\ UNCHANGED <<webhookVars, utilVars>>

SchedSetSchedule(cameraId, schedule) ==
    /\ Commit(setSchedule(World, cameraId, schedule))
    /\ UNCHANGED <<webhookVars, utilVars>>

SchedRemoveSchedule(cameraId) ==
    /\ getEntry(World, cameraId) # Null
    /\ Commit(removeSchedule(World, cameraId))
    /\ UNCHANGED <<webhookVars, utilVars>>

\* forceCheck() is called
SchedForceCheck ==
    /\ Commit(checkSchedules(World))
    /\ UNCHANGED <<webhookVars, utilVars>>

\* start() is called; the host holds at most MaxIntervals timers
SchedStart ==
    /\ Cardinality(intervals) < MaxIntervals
    /\ Commit(start(World))
    /\ UNCHANGED <<webhookVars, utilVars>>

\* stop() is called
SchedStop ==
    /\ Commit(stop(World))
    /\ UNCHANGED <<webhookVars, utilVars>>

\* a live interval timer fires: the periodic tick
SchedTick(id) ==
    /\ id \in intervals
    /\ Commit(checkSchedules(World))
    /\ UNCHANGED <<webhookVars, utilVars>>

SchedAdvanceClock(t) ==
    /\ t > now
    /\ Commit([World EXCEPT !.now = t])
    /\ UNCHANGED <<webhookVars, utilVars>>

\* a query of the manager: isScheduleActive, getScheduleInfo or
\* getActiveSchedules
SchedQueries == {"isScheduleActive", "getScheduleInfo", "getActiveSchedules"}

SchedQuery(op, cameraId) ==
    /\ utilRet' = [op |-> op, cameraId |-> cameraId,
                   value |-> CASE op = "isScheduleActive" -> [ret |-> isScheduleActive(World, cameraId)]
                                [] op = "getScheduleInfo" -> [ret |-> getScheduleInfo(World, cameraId)]
                                [] OTHER -> [ret |-> getActiveSchedules(World)]]
    /\ UNCHANGED <<now, policyVars, auditVars, webhookVars, scheduleArg, mixinRet, frames, lastEdge, notifications, turning>>

\* putSetting('default...') of the plugin
SchedDefaultWrite(key, value) ==
    /\ DEFAULT_PRIVACY_SETTINGS[key] # value
    /\ Commit(putSettingDefault(World, key, value))
    /\ UNCHANGED <<webhookVars, utilVars>>

NextSchedule ==
    \/ \E callback \in OtherCallbacks : SchedOnScheduleChange(callback)
    \/ \E cameraId \in ScheduleSubjects, schedule \in ScheduleArgs :
           SchedSetSchedule(cameraId, schedule)
    \/ \E cameraId \in ScheduleSubjects : SchedRemoveSchedule(cameraId)
    \/ SchedForceCheck
    \/ SchedStart
    \/ SchedStop
    \/ \E id \in 1..MaxIntervals : SchedTick(id)
    \/ \E t \in ScheduleInstants : SchedAdvanceClock(t)
    \/ \E key \in DefaultKeys, value \in BOOLEAN : SchedDefaultWrite(key, value)

SpecSchedule == InitSchedule /\ [][NextSchedule]_vars

\* the manager asked about its schedules between registrations, removals,
\* ticks and clock changes
NextScheduleQueries ==
    \/ \E cameraId \in ScheduleSubjects, schedule \in ScheduleArgs :
           SchedSetSchedule(cameraId, schedule)
    \/ \E cameraId \in ScheduleSubjects : SchedRemoveSchedule(cameraId)
    \/ SchedForceCheck
    \/ \E t \in ScheduleInstants : SchedAdvanceClock(t)
    \/ \E op \in SchedQueries, cameraId \in ScheduleSubjects : SchedQuery(op, cameraId)

SpecScheduleQueries == InitSchedule /\ [][NextScheduleQueries]_vars

\* The manager watched by the callback "observer": what each subject's last
\* callback said, or that its schedule was removed since.
reasonsFor(cs, cameraId) ==
    SelectSeq(cs, LAMBDA x : x.callback = "observer" /\ x.cameraId = cameraId)

seenAfter(seen, cs, removed) ==
    [c \in ScheduleSubjects |->
        IF c \in removed THEN "removed"
        ELSE IF reasonsFor(cs, c) # <<>>
             THEN reasonsFor(cs, c)[Len(reasonsFor(cs, c))].reason
             ELSE seen[c]]

Observe(w, removed) ==
    /\ Commit(w)
    /\ lastEdge' = seenAfter(lastEdge, w.calls, removed)
    /\ UNCHANGED <<webhookVars, scheduleArg, utilRet, mixinRet, frames, notifications, turning>>

InitEdges ==
    /\ now \in ScheduleInstants
    /\ InitPolicyIdle
    /\ InitAuditIdle
    /\ InitWebhookIdle
    /\ scheduleArg = Null
    /\ utilRet = Null
    /\ mixinRet = Null
    /\ frames = <<>>
    /\ lastEdge = [c \in ScheduleSubjects |-> "none"]
    /\ notifications = <<>>
    /\ turning = <<>>

EdgesOnScheduleChange ==
    /\ callbacks = <<>>
    /\ Observe(onScheduleChange(World, "observer"), {})

EdgesSetSchedule(cameraId, schedule) ==
    /\ Observe(setSchedule(World, cameraId, schedule), {})

EdgesRemoveSchedule(cameraId) ==
    /\ getEntry(World, cameraId) # Null
    /\ Observe(removeSchedule(World, cameraId), {cameraId})

EdgesTick ==
    /\ Observe(checkSchedules(World), {})

EdgesAdvanceClock(t) ==
    /\ t > now
    /\ Observe([World EXCEPT !.now = t], {})

NextEdges ==
    \/ EdgesOnScheduleChange
    \/ \E cameraId \in ScheduleSubjects, schedule \in ScheduleArgs :
           EdgesSetSchedule(cameraId, schedule)
    \/ \E cameraId \in ScheduleSubjects : EdgesRemoveSchedule(cameraId)
    \/ EdgesTick
    \/ \E t \in ScheduleInstants : EdgesAdvanceClock(t)

SpecEdges == InitEdges /\ [][NextEdges]_vars

-----------------------------------------------------------------------------
(* The schedule manager with checkSchedules() followed entry by entry and   *)
(* callback by callback.  The host runs one piece of JavaScript at a time:  *)
(* a timer callback or a call from outside starts only when nothing is      *)
(* running, that is, when every call in progress is waiting at an await.    *)

TickOrigins == {"timer", "start", "forceCheck"}

TickCallbacks == {"observer", "stopper"}

hostIdle == \A j \in 1..Len(frames) : frames[j].awaiting

\* the call in progress may take its next step: it is the one running, or
\* it is waiting and the host picks it up
runnable(j) == ~frames[j].awaiting \/ hostIdle

\* the timer fires, forceCheck() is called, or start() is called on a
\* stopped manager: checkSchedules() begins
TickBegin(origin) ==
    /\ hostIdle
    /\ Len(frames) < MaxFrames
    /\ origin = "timer" => intervals # {}
    /\ origin = "start" => checkInterval = Null
    /\ Commit(IF origin = "start" THEN setInterval(World) ELSE World)
    /\ frames' = Append(frames, [origin |-> origin, i |-> 1, k |-> 0, awaiting |-> FALSE])
    /\ UNCHANGED <<webhookVars, scheduleArg, utilRet, mixinRet, lastEdge, notifications, turning>>

\* the loop of checkSchedules() reaches its next entry, or its end
TickEntry(j) ==
    /\ runnable(j)
    /\ frames[j].k = 0
    /\ IF frames[j].i > Len(schedules)
       THEN /\ Commit(World)
            /\ frames' = SubSeq(frames, 1, j - 1) \o SubSeq(frames, j + 1, Len(frames))
       ELSE LET r == checkEntry(World, frames[j].i)
            IN  /\ Commit(r.w)
                /\ frames' = [frames EXCEPT ![j] =
                       IF r.changed THEN [@ EXCEPT !.k = 1, !.awaiting = FALSE]
                       ELSE [@ EXCEPT !.i = @ + 1, !.awaiting = FALSE]]
    /\ UNCHANGED <<webhookVars, scheduleArg, utilRet, mixinRet, lastEdge, notifications, turning>>

\* the loop over the callbacks calls the next one, or is over
TickCallback(j) ==
    /\ runnable(j)
    /\ frames[j].k > 0
    /\ IF frames[j].k > Len(callbacks)
       THEN /\ Commit(World)
            /\ frames' = [frames EXCEPT ![j] = [@ EXCEPT !.i = @ + 1, !.k = 0, !.awaiting = FALSE]]
       ELSE LET entry == schedules[frames[j].i]
                callback == callbacks[frames[j].k]
                schedule == entrySchedule(World, entry.cameraId)
            IN  /\ Commit(invoke(World, callback, entry.cameraId,
                                 IF entry.currentlyActive THEN schedule.settings
                                 ELSE DEFAULT_PRIVACY_SETTINGS,
                                 IF entry.currentlyActive THEN "schedule_start" ELSE "schedule_end"))
                /\ frames' = [frames EXCEPT ![j] =
                       [@ EXCEPT !.k = @ + 1, !.awaiting = awaits(callback)]]
    /\ UNCHANGED <<webhookVars, scheduleArg, utilRet, mixinRet, lastEdge, notifications, turning>>

\* calls from outside, made while nothing is running
TicksOnScheduleChange(callback) ==
    /\ hostIdle
    /\ SchedOnScheduleChange(callback)

TicksSetSchedule(cameraId, schedule) ==
    /\ hostIdle
    /\ SchedSetSchedule(cameraId, schedule)

TicksAdvanceClock(t) ==
    /\ hostIdle
    /\ SchedAdvanceClock(t)

TicksStop ==
    /\ hostIdle
    /\ checkInterval # Null
    /\ SchedStop

NextTicks ==
    \/ \E origin \in TickOrigins : TickBegin(origin)
    \/ \E j \in 1..Len(frames) : TickEntry(j)
    \/ \E j \in 1..Len(frames) : TickCallback(j)
    \/ \E callback \in TickCallbacks : TicksOnScheduleChange(callback)
    \/ \E cameraId \in ScheduleSubjects, schedule \in ScheduleArgs :
           TicksSetSchedule(cameraId, schedule)
    \/ \E t \in ScheduleInstants : TicksAdvanceClock(t)
    \/ TicksStop

SpecTicks == InitSchedule /\ [][NextTicks]_vars

-----------------------------------------------------------------------------
(* Claims about the resolved policy *)

AllBlocked(settings) ==
    /\ settings.blockRecording /\ settings.blockEvents /\ settings.blockStreaming
    /\ settings.blockDetection /\ settings.blockMotionAlerts

NoneBlocked(settings) ==
    /\ ~settings.blockRecording /\ ~settings.blockEvents /\ ~settings.blockStreaming
    /\ ~settings.blockDetection /\ ~settings.blockMotionAlerts

\* the cameras that have a mixin
Subjects == {c \in CameraIds : privacyMixins[c] # Null}

\* the policy a resolution made now gives the camera
Resolved(c) == calculateEffectiveSettings(World, c).value

\* the profile devices that are switched on and list the camera
ActiveDevicesOf(c) ==
    {p \in ProfileIds : /\ profileDevices[p] # Null
                        /\ profileDevices[p].active
                        /\ c \in Members(profileDevices[p].cameraIds)}

\* C1: while panic mode is on, the policy resolved for every camera, and the
\* policy its mixin holds, has all five flags true, whatever the camera's
\* enabled flag, profiles, schedule and manual settings are.
C1_OverrideDominance ==
    pluginSettings.panicMode =>
        \A c \in Subjects :
            /\ AllBlocked(Resolved(c))
            /\ AllBlocked(effectiveSettings[c].value)

\* panic mode is on for a camera whose privacy controls are disabled, whose
\* manual settings block nothing and which is listed by a switched-on profile
C1_Witness ==
    /\ pluginSettings.panicMode
    /\ \E c \in Subjects :
           /\ ~privacyMixins[c].enabled
           /\ NoneBlocked(privacyMixins[c].manualSettings)
           /\ ActiveDevicesOf(c) # {}

\* C2: with panic mode off, a camera whose privacy controls are disabled
\* resolves to the all-allowed policy (all five flags false), after any
\* sequence of earlier operations.
C2_DisabledSubjectTransparent ==
    \A c \in Subjects :
        (~pluginSettings.panicMode /\ ~privacyMixins[c].enabled) =>
            NoneBlocked(Resolved(c))

\* C3: with panic mode off, an enabled camera that is a member of a
\* switched-on profile resolves to that profile's settings, whatever its
\* schedule and manual settings are.
C3_ProfileOutranksSchedule ==
    \A c \in Subjects :
        (~pluginSettings.panicMode /\ privacyMixins[c].enabled) =>
            \A p \in ActiveDevicesOf(c) : Resolved(c) = profileDevices[p].settings

\* the window of the schedule contains the instant t
WindowContains(schedule, t) ==
    LET day == (t \div (24 * 60)) % 7
        minute == t % (24 * 60)
        days == IF schedule.type = "custom" THEN schedule.days
                ELSE getDaysForScheduleType(schedule.type)
        from == (schedule.startTime[1] * 60) + schedule.startTime[2]
        to == (schedule.endTime[1] * 60) + schedule.endTime[2]
    IN  /\ day \in days
        /\ IF from <= to THEN from <= minute /\ minute < to
                         ELSE minute >= from \/ minute < to

\* the camera has a registered, enabled schedule whose window contains now
ScheduleApplies(c) ==
    /\ \E i \in 1..Len(schedules) : schedules[i].cameraId = c
    /\ privacyMixins[c].schedule.enabled
    /\ WindowContains(privacyMixins[c].schedule, now)

\* C4: with panic mode off, an enabled camera that no active profile of the
\* plugin's list contains resolves to schedule.settings when it has a
\* registered enabled schedule whose window contains now, and to its manual
\* settings otherwise.
C4_FallbackRule ==
    \A c \in Subjects :
        (/\ ~pluginSettings.panicMode
         /\ privacyMixins[c].enabled
         /\ getActiveProfileForCamera(World, c) = Null) =>
            Resolved(c) = IF ScheduleApplies(c)
                          THEN privacyMixins[c].schedule.settings
                          ELSE privacyMixins[c].manualSettings

\* the window of a registered schedule has opened since the last tick, for an
\* enabled camera whose manual settings differ from the schedule's
C4_Witness ==
    /\ ~pluginSettings.panicMode
    /\ \E c \in Subjects :
           /\ privacyMixins[c].enabled
           /\ ScheduleApplies(c)
           /\ ~getEntry(World, c).currentlyActive
           /\ privacyMixins[c].manualSettings # privacyMixins[c].schedule.settings
           /\ Resolved(c) = privacyMixins[c].schedule.settings

\* C5: at most one profile is active at any time.
C5_SingleActiveProfile ==
    Cardinality({p \in ProfileIds : profileDevices[p] # Null /\ profileDevices[p].active}) <= 1

TurnOnTakesEffect ==
    \A p \in ProfileIds :
        (ProfileTurnOn(p) /\ ~profileDevices[p].active) =>
            \A c \in Members(profileDevices'[p].cameraIds) :
                (/\ privacyMixins'[c] # Null
                 /\ privacyMixins'[c].enabled
                 /\ ~pluginSettings'.panicMode) =>
                    /\ getActiveProfileForCamera(World', c) # Null
                    /\ getActiveProfileForCamera(World', c).id = p
                    /\ effectiveSettings'[c].value = profileDevices'[p].settings

\* C6: after turnOn() of a profile, with panic mode off, every enabled member
\* camera has the profile as its active profile (getActiveProfileForCamera
\* returns it) and holds the profile's settings as its effective policy.
C6_ProfileActivationTakesEffect == [][TurnOnTakesEffect]_vars

\* the step wrote an audit entry about the camera, or about all cameras
Audited(c) ==
    LET before == getLogs(World)
        after == getLogs(World')
    IN  /\ after # before
        /\ Len(after) > 0
        /\ after[1].timestamp = now'
        /\ after[1].cameraId \in {c, 0}

PolicyTransitionAudited ==
    \A c \in CameraIds :
        (/\ initialized
         /\ effectiveSettings[c] # Null
         /\ effectiveSettings'[c] # Null
         /\ effectiveSettings[c].value # effectiveSettings'[c].value) =>
            Audited(c)

\* C7: once the plugin is initialized, every step that changes the effective
\* policy a camera holds appends an audit entry for that change.
C7_EveryTransitionAudited == [][PolicyTransitionAudited]_vars

\* the policy the camera's mixin holds after the step is the one a
\* resolution of the state after the step gives
InForceAfter(c) ==
    effectiveSettings'[c] # Null =>
        effectiveSettings'[c].value = calculateEffectiveSettings(World', c).value

\* a step whose audit write fails: the override is flipped, a profile is
\* switched on or off, a schedule edge is detected, or a setting is edited
OverrideFlip(enabled) == SetPanicMode(enabled) /\ pluginSettings.panicMode # enabled

ProfileToggledOn(p) == ProfileTurnOn(p) /\ ~profileDevices[p].active

ProfileToggledOff(p) == ProfileTurnOff(p) /\ profileDevices[p].active

\* the tick flipped the stored flag of the camera's schedule entry
ScheduleEdge(c) ==
    /\ Tick
    /\ getEntry(World, c) # Null
    /\ getEntry(World', c) # Null
    /\ getEntry(World, c).currentlyActive # getEntry(World', c).currentlyActive

TransitionSurvivesAuditFailure ==
    setItemThrows =>
        /\ \A enabled \in BOOLEAN :
               OverrideFlip(enabled) =>
                   /\ ~auditRaised'
                   /\ pluginSettings'.panicMode = enabled
                   /\ \A c \in Subjects :
                          /\ InForceAfter(c)
                          /\ enabled => AllBlocked(effectiveSettings'[c].value)
        /\ \A c \in CameraIds :
               ScheduleEdge(c) => (~auditRaised' /\ InForceAfter(c))
        /\ \A c \in CameraIds, key \in MixinKeys, value \in BOOLEAN :
               MixinPutSetting(c, key, value) => (~auditRaised' /\ InForceAfter(c))
        /\ \A p \in ProfileIds :
               ProfileToggledOff(p) =>
                   /\ ~auditRaised'
                   /\ ~profileDevices'[p].active
                   /\ \A c \in Members(profileDevices'[p].cameraIds) : InForceAfter(c)
        /\ \A p \in ProfileIds :
               ProfileToggledOn(p) =>
                   /\ ~auditRaised'
                   /\ profileDevices'[p].active
                   /\ \A c \in Members(profileDevices'[p].cameraIds) :
                          /\ InForceAfter(c)
                          /\ (/\ privacyMixins'[c] # Null
                              /\ privacyMixins'[c].enabled
                              /\ ~pluginSettings'.panicMode) =>
                                 effectiveSettings'[c].value = profileDevices'[p].settings

\* C12: when an audit write fails, the policy transition that triggered it
\* (override flip, profile toggle, schedule edge, manual edit) completes
\* without raising and is not rolled back: the new effective policy is in
\* force for every affected camera afterwards.
C12_ObserversNeverBreakTransition == [][TransitionSurvivesAuditFailure]_vars

-----------------------------------------------------------------------------
(* Claims about the time-window functions *)

\* the days the schedule applies to, its window in minutes of the day, and the
\* weekday and minute of the day of now
DaysOf(schedule) ==
    IF schedule.type = "custom" THEN schedule.days
    ELSE IF schedule.type = "daily" THEN 0..6
    ELSE IF schedule.type = "weekdays" THEN 1..5
    ELSE {0, 6}

Minute(time) == (60 * time[1]) + time[2]

Weekday == (now \div 1440) % 7

MinuteNow == now % 1440

\* C14: isWithinSchedule is false when the schedule is disabled or today is
\* not one of its days; otherwise, with s and e the start and end and m the
\* minute of the day, it is true iff s <= m < e when s <= e, and iff m >= s
\* or m < e when s > e.  So 22:00-06:00 is active at 23:00 and 05:59 and not
\* at 06:00 and 21:59, and 08:00-22:00 is active at 08:00 and not at 22:00.
C14_TimeWindowMembership ==
    (utilRet # Null /\ utilRet.op = "isWithinSchedule") =>
        LET s == Minute(scheduleArg.startTime)
            e == Minute(scheduleArg.endTime)
            m == MinuteNow
            applies == scheduleArg.enabled /\ Weekday \in DaysOf(scheduleArg)
        IN  /\ ~applies => ~utilRet.within
            /\ (applies /\ s <= e) => (utilRet.within <=> (s <= m /\ m < e))
            /\ (applies /\ s > e) => (utilRet.within <=> (m >= s \/ m < e))
            /\ (applies /\ s = 22 * 60 /\ e = 6 * 60) =>
                   /\ m \in {23 * 60, (5 * 60) + 59} => utilRet.within
                   /\ m \in {6 * 60, (21 * 60) + 59} => ~utilRet.within
            /\ (applies /\ s = 8 * 60 /\ e = 22 * 60) =>
                   /\ m = 8 * 60 => utilRet.within
                   /\ m = 22 * 60 => ~utilRet.within

\* the overnight window 22:00-06:00 was evaluated at 05:59 of one of its days
\* and found active
C14_Witness ==
    /\ utilRet # Null
    /\ utilRet.op = "isWithinSchedule"
    /\ scheduleArg.startTime = <<22, 0>>
    /\ scheduleArg.endTime = <<6, 0>>
    /\ MinuteNow = (5 * 60) + 59
    /\ utilRet.within

\* C15: for every enabled schedule that applies to at least one day (every
\* type, every day set including a single custom day, same-day and overnight
\* windows) and every instant now, getNextScheduleChange returns an instant
\* strictly after now; for every disabled schedule it returns none.
C15_NextChangeBounds ==
    (utilRet # Null /\ utilRet.op = "getNextScheduleChange") =>
        /\ ~scheduleArg.enabled => utilRet.next = Null
        /\ (scheduleArg.enabled /\ DaysOf(scheduleArg) # {}) =>
               /\ utilRet.next # Null
               /\ utilRet.next.date > now

-----------------------------------------------------------------------------
(* Claims about the schedule manager *)

\* the subject has an entry in the schedule manager
Registered(c) == \E i \in 1..Len(schedules) : schedules[i].cameraId = c

EntryOf(c) == schedules[CHOOSE i \in 1..Len(schedules) : schedules[i].cameraId = c]

\* the live time-window evaluation of the subject's schedule
LiveActive(c) ==
    EntryOf(c).schedule.enabled /\ WindowContains(EntryOf(c).schedule, now)

\* the subject's stored flag differs from the live evaluation
FlagDiffers(c) == Registered(c) /\ EntryOf(c).currentlyActive # LiveActive(c)

\* the invocations of the step that went to the callback for the subject
CallsTo(callback, c) ==
    {i \in 1..Len(calls') : calls'[i].callback = callback /\ calls'[i].cameraId = c}

RegisteredCallbacks == {callbacks[k] : k \in 1..Len(callbacks)}

TickDetectsEdges ==
    SchedForceCheck =>
        \A c \in ScheduleSubjects :
            /\ FlagDiffers(c) =>
                   /\ getEntry(World', c).currentlyActive = LiveActive(c)
                   /\ \A callback \in RegisteredCallbacks :
                          /\ Cardinality(CallsTo(callback, c)) = 1
                          /\ \A i \in CallsTo(callback, c) :
                                 IF LiveActive(c)
                                 THEN /\ calls'[i].reason = "schedule_start"
                                      /\ calls'[i].settings = EntryOf(c).schedule.settings
                                 ELSE /\ calls'[i].reason = "schedule_end"
                                      /\ calls'[i].settings = AllAllowed
            /\ ~FlagDiffers(c) =>
                   /\ \A i \in 1..Len(calls') : calls'[i].cameraId # c
                   /\ Registered(c) =>
                          getEntry(World', c).currentlyActive = EntryOf(c).currentlyActive

\* C16: a tick invokes the callbacks for a subject exactly when its stored
\* flag differs from the live time-window evaluation; it stores the new flag
\* and calls every registered callback once, with schedule_start and
\* schedule.settings when turning active, with schedule_end and the
\* all-allowed settings when turning inactive; other subjects get no callback.
C16_TickEdgeDetection == [][TickDetectsEdges]_vars

TickIsolatesCallbacks ==
    (SchedForceCheck /\ "faulty" \in RegisteredCallbacks) =>
        \A c \in ScheduleSubjects :
            FlagDiffers(c) =>
                /\ getEntry(World', c).currentlyActive = LiveActive(c)
                /\ \A callback \in RegisteredCallbacks : CallsTo(callback, c) # {}

\* C17: when a registered callback raises during a tick, every other
\* registered callback is still invoked for that edge and every remaining
\* subject is still evaluated in the same tick.
C17_CallbackIsolation == [][TickIsolatesCallbacks]_vars

\* one tick met two edges with the throwing callback registered first: four
\* invocations, the throwing callback's before the other's, for two subjects
C17_Witness ==
    /\ callbacks = <<"faulty", "observer">>
    /\ Len(calls) = 4
    /\ calls[1].callback = "faulty"
    /\ calls[2].callback = "observer"
    /\ calls[1].cameraId # calls[3].cameraId

\* one schedule_start invocation per registered callback, in order
StartCalls(c, schedule) ==
    [k \in 1..Len(callbacks) |->
        [callback |-> callbacks[k], cameraId |-> c,
         settings |-> schedule.settings, reason |-> "schedule_start"]]

SetScheduleFiresAtOnce ==
    \A c \in ScheduleSubjects, schedule \in ScheduleArgs :
        (SchedSetSchedule(c, schedule) /\ Registered(c)) =>
            IF /\ ~EntryOf(c).currentlyActive
               /\ schedule.enabled
               /\ WindowContains(schedule, now)
            THEN calls' = StartCalls(c, schedule)
            ELSE calls' = <<>>

\* C19: setSchedule on a registered subject whose stored flag is inactive,
\* with an enabled schedule whose window contains now, fires schedule_start
\* with schedule.settings to every callback before it returns; it fires
\* nothing when the subject was already active or when the new schedule is
\* disabled or outside its window.
C19_ImmediateActivation == [][SetScheduleFiresAtOnce]_vars

\* both callbacks were told at 09:00 that the subject's 09:00-22:00 schedule
\* started, and the subject is stored as active
C19_Witness ==
    /\ now = At(1, 9, 0)
    /\ Len(callbacks) = 2
    /\ Len(calls) = 2
    /\ calls[1].reason = "schedule_start"
    /\ calls[1].settings = Settings(TRUE, FALSE, FALSE, FALSE, FALSE)
    /\ Registered(calls[1].cameraId)
    /\ EntryOf(calls[1].cameraId).currentlyActive

RemoveIsSilent ==
    \A c \in ScheduleSubjects :
        SchedRemoveSchedule(c) => (calls' = <<>> /\ getEntry(World', c) = Null)

NoCallbackForUnregistered ==
    SchedForceCheck => \A i \in 1..Len(calls') : Registered(calls'[i].cameraId)

UnregisteredGetsBaseline ==
    \A c \in ScheduleSubjects :
        ~Registered(c) =>
            \A baseline \in {AllAllowed, FULL_PRIVACY_SETTINGS} :
                getEffectiveSettings(World, c, baseline) = baseline

\* C20: removeSchedule fires no callback even when the subject is active;
\* afterwards, until setSchedule is called for it again, no tick fires a
\* callback for the subject and getEffectiveSettings returns the baseline.
C20_RemoveScheduleSilentFinal ==
    /\ []UnregisteredGetsBaseline
    /\ [][RemoveIsSilent /\ NoCallbackForUnregistered]_vars

\* inside the window, with callbacks registered: one subject is stored as
\* active, the other has no entry, and the last call fired nothing
C20_Witness ==
    /\ now = At(1, 9, 0)
    /\ Len(callbacks) = 2
    /\ calls = <<>>
    /\ ~Registered(1)
    /\ Registered(2)
    /\ EntryOf(2).currentlyActive

\* the camera is registered with an enabled daily 08:00-22:00 schedule that
\* blocks everything
HasDayShift(c) ==
    /\ Registered(c)
    /\ privacyMixins[c] # Null
    /\ privacyMixins[c].schedule.enabled
    /\ privacyMixins[c].schedule.type = "daily"
    /\ privacyMixins[c].schedule.startTime = <<8, 0>>
    /\ privacyMixins[c].schedule.endTime = <<22, 0>>
    /\ AllBlocked(privacyMixins[c].schedule.settings)

\* a run of checkSchedules(): the interval timer, or the first check made
\* by start()
TickStep == Tick \/ Initialize

\* the audit log gained exactly one entry, with trigger schedule, for the camera
GainsScheduleEntry(c) ==
    LET before == getLogs(World)
        after == getLogs(World')
    IN  /\ Len(after) = Len(before) + 1
        /\ after[1].trigger = "schedule"
        /\ after[1].cameraId = c
        /\ SubSeq(after, 2, Len(after)) = before

ScheduleEdgeEndToEnd ==
    \A c \in CameraIds :
        HasDayShift(c) =>
            /\ (MinuteNow < 8 * 60 /\ ~EntryOf(c).currentlyActive) =>
                   ~isWithinSchedule(entrySchedule(World, c), now)
            /\ (TickStep /\ MinuteNow >= 8 * 60 /\ MinuteNow < 22 * 60
                    /\ ~EntryOf(c).currentlyActive) =>
                   /\ Len(calls') = 1
                   /\ calls'[1].cameraId = c
                   /\ calls'[1].reason = "schedule_start"
                   /\ AllBlocked(calls'[1].settings)
                   /\ GainsScheduleEntry(c)
            /\ (TickStep /\ MinuteNow >= 8 * 60 /\ MinuteNow < 22 * 60
                    /\ EntryOf(c).currentlyActive) =>
                   (calls' = <<>> /\ getLogs(World') = getLogs(World))

\* C18: a camera registered with an enabled daily 08:00-22:00 all-blocked
\* schedule is reported inactive before 08:00; the first tick at or after
\* 08:00 fires exactly one schedule_start callback with all-blocked settings
\* and the audit log gains exactly one entry with trigger schedule for the
\* camera; later ticks inside the window fire nothing more.
C18_ScheduleEdgeEndToEnd == [][ScheduleEdgeEndToEnd]_vars

-----------------------------------------------------------------------------
(* Claims about the timer of the schedule manager *)

\* the registry of schedules: who is registered, in which order, with which schedule
Registry(entries) ==
    [i \in 1..Len(entries) |-> [cameraId |-> entries[i].cameraId, schedule |-> entries[i].schedule]]

\* the live timers are exactly the one the manager holds a handle of
OneTimerAtMost ==
    /\ Cardinality(intervals) <= 1
    /\ intervals = IF checkInterval = Null THEN {} ELSE {checkInterval.id}

\* start() on a started manager and stop() on a stopped one change nothing
\* and run no check
RepeatedCallIsNoOp ==
    /\ (SchedStart /\ checkInterval # Null)
           => UNCHANGED <<schedules, callbacks, checkInterval, intervals>> /\ calls' = <<>>
    /\ (SchedStop /\ checkInterval = Null)
           => UNCHANGED <<schedules, callbacks, checkInterval, intervals>> /\ calls' = <<>>

\* stop() leaves no live timer, so that no periodic tick can run
StopEndsPeriodicTicks ==
    /\ SchedStop => intervals' = {} /\ checkInterval' = Null
    /\ checkInterval = Null => \A id \in 1..MaxIntervals : ~ENABLED SchedTick(id)

\* start() and stop() leave the registry and the callbacks alone
StartStopFrame ==
    (SchedStart \/ SchedStop)
        => /\ Registry(schedules') = Registry(schedules)
           /\ callbacks' = callbacks

\* C21: start() and stop() are idempotent: at most one periodic timer is
\* live, and it is the one the manager holds; start() on a started manager
\* and stop() on a stopped one change nothing; after stop() no periodic tick
\* can run until the next start(); and neither call changes the registered
\* schedules or the callbacks.
C21_StartStopIdempotent ==
    /\ [](OneTimerAtMost)
    /\ [][RepeatedCallIsNoOp /\ StopEndsPeriodicTicks /\ StartStopFrame]_vars

\* a started manager whose first check has fired a callback
C21_Witness ==
    /\ checkInterval # Null
    /\ intervals = {checkInterval.id}
    /\ Len(calls) > 0

-----------------------------------------------------------------------------
(* Claims about flush() and test() of the webhook manager *)

\* the deliveries that have not finished
Outstanding == {i \in 1..Len(deliveries) : ~Finished(deliveries[i])}

\* a flush() call waits for exactly the deliveries outstanding at the call
FlushTakesOutstanding ==
    Len(flushes') > Len(flushes) => flushes'[Len(flushes')].snapshot = Outstanding

\* neither the call of flush() nor its completion touches a delivery
FlushFrame ==
    (WebhookFlush \/ \E j \in 1..Len(flushes) : WebhookFlushSettle(j))
        => UNCHANGED <<deliveries, webhookConfig>>

\* a flush() that is over was fulfilled, after every delivery it waited for
\* had finished
FlushWaited ==
    \A j \in 1..Len(flushes) :
        /\ flushes[j].pc # "rejected"
        /\ flushes[j].pc = "resolved" =>
               \A i \in flushes[j].snapshot : Finished(deliveries[i])

\* C22: flush() completes only after every delivery that was outstanding
\* when it was called has finished, by a success or by a permanent failure;
\* it never raises, and neither its call nor its completion changes any
\* delivery: no retry sequence is aborted, nothing leaves the pending set.
C22_FlushWaitsNeverCancels ==
    /\ [](FlushWaited)
    /\ [][FlushTakesOutstanding /\ FlushFrame]_vars

\* a flush() that waited for two deliveries is over, one of them having
\* failed for good after three attempts
C22_Witness ==
    \E j \in 1..Len(flushes) :
        /\ flushes[j].pc = "resolved"
        /\ Cardinality(flushes[j].snapshot) = 2
        /\ \E i \in flushes[j].snapshot :
               deliveries[i].pc = "failed" /\ Len(deliveries[i].attempts) = 3

\* a test() call made with no configuration makes no attempt and reports a
\* failure; one made with a configuration issues its POST whatever the
\* subscribed kinds are
TestCall ==
    WebhookTest =>
        LET t == tests'[Len(tests')]
        IN  IF webhookConfig = Null
            THEN t.pc = "done" /\ t.attempts = <<>> /\ ~t.ret.success
            ELSE t.pc = "post" /\ t.attempts = <<>>

\* a test() that is over made at most one attempt and returned a result
\* that reports success exactly for a 2xx response
TestReturned ==
    \A k \in 1..Len(tests) :
        LET t == tests[k]
        IN  /\ Len(t.attempts) <= 1
            /\ t.pc = "post" => t.attempts = <<>>
            /\ t.pc = "done" =>
                   /\ t.ret # Null
                   /\ t.ret.success \in BOOLEAN
                   /\ t.ret.success <=> t.attempts = <<"2xx">>

\* test() never adds to the deliveries: nothing is retried or left pending
TestFrame ==
    (WebhookTest \/ \E k \in 1..Len(tests), result \in PostResults : WebhookTestRespond(k, result))
        => UNCHANGED <<deliveries, flushes, webhookConfig>>

\* C23: test() makes exactly one POST attempt and no retry, whichever event
\* kinds are subscribed, and always returns a result instead of raising:
\* success is true exactly when that attempt got a 2xx response, and it is
\* false with no attempt made when no configuration is set.
C23_TestSingleUnfiltered ==
    /\ [](TestReturned)
    /\ [][TestCall /\ TestFrame]_vars

\* a test() made while privacy_changed is not subscribed has failed after
\* its one attempt
C23_Witness ==
    /\ webhookConfig # Null
    /\ "privacy_changed" \notin webhookConfig.events
    /\ \E k \in 1..Len(tests) :
           /\ tests[k].pc = "done"
           /\ tests[k].attempts = <<"non2xx">>
           /\ ~tests[k].ret.success

-----------------------------------------------------------------------------
(* Claims about the end of a delivery *)

\* a delivery that is over ended at its first 2xx response or after three
\* failed attempts
EndedAsStated(d) ==
    \/ /\ d.pc = "sent"
       /\ Len(d.attempts) <= retryCount
       /\ d.attempts[Len(d.attempts)] = "2xx"
       /\ \A k \in 1..(Len(d.attempts) - 1) : d.attempts[k] \in {"non2xx", "transportError"}
    \/ /\ d.pc = "failed"
       /\ Len(d.attempts) = retryCount
       /\ \A k \in 1..Len(d.attempts) : d.attempts[k] \in {"non2xx", "transportError"}

\* a finished delivery is out of the pending set and makes no further attempt
FinishedStaysFinished ==
    \A i \in 1..Len(deliveries) :
        Finished(deliveries[i]) => deliveries'[i] = deliveries[i] /\ ~deliveries[i].pending

\* every submitted delivery eventually leaves the pending set
DeliveryLeavesPending ==
    \A i \in 1..MaxDeliveries :
        (i <= Len(deliveries)) ~> (i <= Len(deliveries) /\ ~deliveries[i].pending)

\* C24: every delivery ends after at most 3 attempts, either at its first
\* 2xx attempt or in a permanent failure after the third failed attempt.
C24_DeliveryTerminates ==
    \A i \in 1..Len(deliveries) :
        /\ Len(deliveries[i].attempts) <= retryCount
        /\ Finished(deliveries[i]) => EndedAsStated(deliveries[i])

-----------------------------------------------------------------------------
(* Claims about the camera interfaces of the mixin *)

\* the policy in force for the camera blocks streaming
StreamingBlocked(c) == effectiveSettings[c].value.blockStreaming

\* how a camera call ends when streaming is blocked for the camera
WhenBlocked(op) == IF op \in {"getVideoStream", "takePicture"} THEN "throws" ELSE "empty"

\* a camera call on a mixin ends by the streaming flag of the policy in
\* force, and leaves the policy alone
GateFollowsPolicy ==
    \A c \in CameraIds, op \in MixinCalls :
        MixinCall(c, op) =>
            /\ mixinRet'.op = op /\ mixinRet'.cameraId = c
            /\ mixinRet'.result = IF StreamingBlocked(c) THEN WhenBlocked(op) ELSE "mixinDevice"
            /\ UNCHANGED effectiveSettings

-----------------------------------------------------------------------------
(* Claims about the queries of the schedule manager *)

\* the subjects of the sequence
SubjectsIn(ids) == {ids[i] : i \in 1..Len(ids)}

\* the subject's stored flag, FALSE for a disabled or missing schedule
StoredActive(c) == Registered(c) /\ EntryOf(c).schedule.enabled /\ EntryOf(c).currentlyActive

\* the subject's schedule is enabled and its window contains this instant
WindowActive(c) == Registered(c) /\ LiveActive(c)

\* what the three queries report is given by the predicate on subjects
QueriesReport(Active(_)) ==
    \A c \in ScheduleSubjects :
        /\ SchedQuery("isScheduleActive", c) => utilRet'.value.ret = Active(c)
        /\ SchedQuery("getScheduleInfo", c) => utilRet'.value.ret.isActive = Active(c)
        /\ SchedQuery("getActiveSchedules", c) =>
               SubjectsIn(utilRet'.value.ret) = {d \in ScheduleSubjects : Active(d)}

\* getEffectiveSettings gives the schedule's settings exactly inside the
\* window of an enabled schedule, whatever the stored flag is
EffectiveSettingsLive ==
    \A c \in ScheduleSubjects :
        Registered(c) =>
            getEffectiveSettings(World, c, AllAllowed) =
                IF WindowActive(c) THEN Own(EntryOf(c).schedule.settings) ELSE AllAllowed

\* C26 as stated: isActive(subject), getInfo(subject).isActive and
\* getActiveList() report the stored active flag as last written by
\* setSchedule or a tick, without re-evaluating the time window.
C26_AsStated == [][QueriesReport(StoredActive)]_vars

\* C26: isActive(subject), getInfo(subject).isActive and getActiveList()
\* re-evaluate the time window at every call, as getEffectiveSettings does,
\* and neither read nor write the stored flag: they report that the
\* schedule is enabled and this instant is inside its window, so that they
\* agree with getEffectiveSettings and, between a window boundary and the
\* next tick, differ from the stored flag.
C26_QueriesEvaluateLive ==
    /\ [](EffectiveSettingsLive)
    /\ [][QueriesReport(WindowActive)]_vars
    /\ [][\A op \in SchedQueries, c \in ScheduleSubjects : SchedQuery(op, c) => UNCHANGED schedules]_vars

\* isActive was asked after the window of the subject's schedule had opened
\* and before a tick: it answered TRUE while the stored flag is FALSE
C26_Witness ==
    /\ utilRet # Null
    /\ utilRet.op = "isScheduleActive"
    /\ utilRet.value.ret = TRUE
    /\ Registered(utilRet.cameraId)
    /\ ~EntryOf(utilRet.cameraId).currentlyActive
    /\ WindowActive(utilRet.cameraId)

-----------------------------------------------------------------------------
(* Claims about the order and the content of the audit log.  The clock     *)
(* Date.now() reads is taken not to run backwards, within a session and    *)
(* from one session to the next.                                            *)

\* every entry is at least as new as the one after it
NewestFirst(logs) ==
    \A i \in 1..(Len(logs) - 1) : logs[i].timestamp >= logs[i + 1].timestamp

\* what log() leaves has the new entry, stamped with the clock, at its head
LogPutsEntryAtHead ==
    \A entry \in AuditInputs :
        (AuditLog(entry) /\ retentionDays > 0) =>
            /\ Len(LogsAfter) > 0
            /\ LogsAfter[1] = [entry EXCEPT !.timestamp = now]

Shown(e) ==
    [timestamp |-> e.timestamp, cameraId |-> e.cameraId, trigger |-> e.trigger,
     newSettings |-> e.newSettings]

ShownLogs(w) == [i \in 1..Len(getLogs(w)) |-> Shown(getLogs(w)[i])]

RECURSIVE IsSubsequence(_, _)
\* a is b with some of its entries left out
IsSubsequence(a, b) ==
    IF a = <<>> THEN TRUE
    ELSE IF b = <<>> THEN FALSE
    ELSE IF Head(a) = Head(b) THEN IsSubsequence(Tail(a), Tail(b))
    ELSE IsSubsequence(a, Tail(b))

\* behind the entries the step has logged, the log shows entries it showed
\* before the step, unchanged and in their order
EntriesKept ==
    LET before == ShownLogs(World)
        after == ShownLogs(World')
    IN  \E k \in 0..Len(after) :
            /\ \A i \in 1..k : after[i].timestamp = now'
            /\ IsSubsequence(SubSeq(after, k + 1, Len(after)), before)

\* C28: once log() has stored an entry, its timestamp, subject, trigger and
\* settings as getLogs() and exportLogs() show them never change until the
\* entry is pruned or cleared: no step, and in particular no later edit of
\* the subject's manual settings or of a profile's settings, alters an
\* entry that was logged before it.
C28_AuditEntriesImmutable == [][EntriesKept]_vars

-----------------------------------------------------------------------------
(* Claims about the cache of the audit logger *)

\* the entries that are persisted
Persisted(storage) == safeJsonParse(storage, <<>>)

\* a write operation of the audit log has run to its end without raising
AuditWriteCompleted ==
    /\ \/ \E entry \in AuditInputs : AuditLog(entry)
       \/ AuditApplyRetention
       \/ AuditClearLogs
    /\ ~auditRaised'

\* the cache holds exactly the entries that are persisted
CacheInSync(cache, storage) ==
    /\ cache # Null
    /\ stringify(cache.logs).json = Persisted(storage)

CacheFollowsWrites ==
    /\ AuditWriteCompleted => CacheInSync(logCache', auditStorage')
    /\ (AuditClearLogs /\ ~auditRaised') =>
           (logCache' = [logs |-> <<>>] /\ Persisted(auditStorage') = <<>>)
    /\ logCache # Null => logCache' # Null

\* C29: after every write operation of the audit log (log, applyRetention,
\* clearLogs) has completed, the cache holds exactly the entries that are
\* persisted; clearLogs leaves both empty; and once the cache is populated
\* it stays populated and reads return it, never the persisted value.
C29_CacheStorageInSync ==
    /\ [](logCache # Null => getLogs(World) = logCache.logs)
    /\ [][CacheFollowsWrites]_vars

-----------------------------------------------------------------------------
(* Claims about ticks in progress *)

\* at most one checkSchedules() has begun and not returned
OneTickInFlight == Len(frames) <= 1

\* a tick begins only when no tick is in progress
TickBeginsAlone ==
    \A origin \in TickOrigins : TickBegin(origin) => frames = <<>>

\* a tick leaves only from the end of its loop over the entries
TickEndsAtEnd ==
    Len(frames') < Len(frames) =>
        \E j \in 1..Len(frames) : frames[j].k = 0 /\ frames[j].i > Len(schedules)

\* a stop() made while a tick is in progress clears the timer and leaves
\* the tick where it is, with its next callback still to come
StopLeavesTick ==
    (frames # <<>> /\ checkInterval # Null /\ checkInterval' = Null) =>
        /\ intervals' = {}
        /\ Len(frames') = Len(frames)
        /\ \A j \in 1..Len(frames) : frames'[j].i = frames[j].i /\ frames'[j].k = frames[j].k + 1

\* whether the manager is started or not, the tick calls each callback in
\* its turn, once
TickCallsInTurn ==
    \A j \in 1..Len(frames) :
        (TickCallback(j) /\ frames[j].k \in 1..Len(callbacks)) =>
            /\ Len(calls') = 1
            /\ calls'[1].callback = callbacks[frames[j].k]
            /\ calls'[1].cameraId = schedules[frames[j].i].cameraId

\* C30: ticks never overlap: no tick, whether periodic, the first one of
\* start() or a forceCheck(), begins while another tick or one of its
\* callbacks is still executing; and a stop() called during a tick lets the
\* tick and its callbacks run to completion.
C30_TicksNeverOverlap ==
    /\ [](OneTickInFlight)
    /\ [][TickBeginsAlone /\ TickEndsAtEnd /\ StopLeavesTick /\ TickCallsInTurn]_vars

\* a periodic tick whose first callback has stopped the manager has gone
\* on to call the callback after it
C30_Witness ==
    /\ Len(frames) = 1
    /\ frames[1].origin = "timer"
    /\ checkInterval = Null
    /\ Len(callbacks) = 2
    /\ frames[1].k = 3
    /\ Len(calls) = 1
    /\ calls[1].callback = "observer"

-----------------------------------------------------------------------------
(* Claims about the days of a stored schedule *)

\* the schedules the mixins hold
StoredSchedules == {privacyMixins[c].schedule : c \in {d \in CameraIds : privacyMixins[d] # Null}}

\* the days field of a schedule whose type is not custom is the set of its type
DaysFollowType ==
    \A schedule \in StoredSchedules :
        schedule.type # "custom" => schedule.days = getDaysForScheduleType(schedule.type)

\* whatever the days field holds, a schedule whose type is not custom is
\* active exactly when it would be with the days of its type
IsActiveIgnoresDays ==
    \A schedule \in StoredSchedules :
        schedule.type # "custom" =>
            isWithinSchedule(schedule, now) =
                isWithinSchedule([schedule EXCEPT !.days = getDaysForScheduleType(schedule.type)],
                                 now)

\* C31: type-derived days: in every reachable state a stored schedule whose
\* type is not custom has days equal to the set of its type (daily: all
\* seven, weekdays: 1..5, weekends: {0, 6}), after any sequence of edits of
\* scheduleType, scheduleDays and scheduleEnabled; and isActive ignores the
\* days field when the type is not custom.
C31_TypeDerivedDays == DaysFollowType /\ IsActiveIgnoresDays

-----------------------------------------------------------------------------
(* Claims about the order of the edges a callback sees *)

\* the callbacks of this step for the subject do not repeat schedule_start
\* after the schedule_start it saw last
StartsAlternate(c) ==
    LET seen == reasonsFor(calls', c)
    IN  /\ (seen # <<>> /\ seen[1].reason = "schedule_start") => lastEdge[c] # "schedule_start"
        /\ \A k \in 1..(Len(seen) - 1) :
               ~(seen[k].reason = "schedule_start" /\ seen[k + 1].reason = "schedule_start")

\* C32: edges alternate: for each subject, between two consecutive
\* schedule_start callbacks (from ticks or from setSchedule) there is a
\* schedule_end callback or a removeSchedule for that subject; a setSchedule
\* that replaces an active schedule by one that is not active now does not
\* drop the end edge.
C32_EdgesAlternate ==
    [][\A c \in ScheduleSubjects : StartsAlternate(c)]_vars

-----------------------------------------------------------------------------
(* Claims about the cached effective settings *)

\* an operation after which every mixin has to hold the current resolution
ReevaluatingStep ==
    \/ \E enabled \in BOOLEAN : SetPanicMode(enabled)
    \/ \E nativeId \in ProfileIds : ProfileTurnOn(nativeId) \/ ProfileTurnOff(nativeId)
    \/ \E nativeId \in ProfileIds, key \in ProfileKeys, value \in BOOLEAN :
           /\ profileDevices[nativeId] # Null
           /\ profileDevices[nativeId].active
           /\ ProfilePutSetting(nativeId, key, value)
    \/ \E nativeId \in ProfileIds, value \in CameraLists :
           /\ profileDevices[nativeId] # Null
           /\ profileDevices[nativeId].active
           /\ ProfilePutSetting(nativeId, "profileCameras", value)
    \/ \E cameraId \in CameraIds, key \in MixinKeys, value \in BOOLEAN :
           MixinPutSetting(cameraId, key, value)
    \/ Initialize
    \/ Tick

\* the cached settings of every mixin are what calculateEffectiveSettings()
\* gives on the state as it is
CacheIsCurrent ==
    \A c \in CameraIds :
        privacyMixins[c] # Null =>
            effectiveSettings[c].value = calculateEffectiveSettings(World, c).value

\* C33: the cached effective policy is current: immediately after
\* setPanicMode, a profile's turnOn or turnOff, an edit of an active profile,
\* a subject's putSetting, the plugin's initialisation and a schedule tick,
\* the cached effective policy of every registered subject equals the
\* resolver's result on the current state.
C33_CachedPolicyCurrent == [][ReevaluatingStep => CacheIsCurrent']_vars

-----------------------------------------------------------------------------
(* Claims about windows that span midnight *)

\* the window of an overnight schedule contains this instant: it started
\* this evening on one of the schedule's days, or yesterday evening on one
\* of them and has not ended yet
InOvernightWindow(schedule) ==
    \/ MinuteNow >= Minute(schedule.startTime) /\ Weekday \in DaysOf(schedule)
    \/ MinuteNow < Minute(schedule.endTime) /\ ((Weekday + 6) % 7) \in DaysOf(schedule)

\* C34: overnight window continuity: a schedule whose window spans midnight
\* (start > end) stays active, once started on one of its days, at every
\* minute until its end time the next morning, and is not active on a
\* morning whose preceding evening was not one of its days: weekdays
\* 22:00-06:00 is active Saturday 01:00 and inactive Monday 01:00.
C34_OvernightContinuity ==
    (/\ utilRet # Null
     /\ utilRet.op = "isWithinSchedule"
     /\ scheduleArg.enabled
     /\ Minute(scheduleArg.startTime) > Minute(scheduleArg.endTime)) =>
        (utilRet.within <=> InOvernightWindow(scheduleArg))

-----------------------------------------------------------------------------
(* Claims about the instant of the next change *)

\* isWithinSchedule keeps the value it has now at every minute before t and
\* has the other value at t
RealNextEdge(schedule, t) ==
    LET current == isWithinSchedule(schedule, now)
    IN  /\ \A u \in now..(t - 1) : isWithinSchedule(schedule, u) = current
        /\ isWithinSchedule(schedule, t) # current

\* getNextScheduleChange was called on an enabled schedule and returned a Date
ReturnedNextChange ==
    /\ utilRet # Null
    /\ utilRet.op = "getNextScheduleChange"
    /\ scheduleArg.enabled
    /\ utilRet.next # Null

\* C35: nextChange is the real next edge: for every enabled schedule and
\* instant now for which nextChange returns an instant t, isActive keeps its
\* current value at every minute in [now, t) and has the opposite value at
\* t, overnight windows with weekday, weekend or custom day sets and windows
\* with start = end included.
C35_NextChangeIsNextEdge ==
    ReturnedNextChange => RealNextEdge(scheduleArg, utilRet.next.date)

\* the same for windows that open and close on the same day
NextChangeOfDayWindow ==
    (ReturnedNextChange /\ Minute(scheduleArg.startTime) < Minute(scheduleArg.endTime)) =>
        RealNextEdge(scheduleArg, utilRet.next.date)

-----------------------------------------------------------------------------
(* Claims about what counts as a sent notification *)

\* some POST of the delivery got a 2xx response
SomePostAccepted(d) == \E k \in 1..Len(d.attempts) : d.attempts[k] = "2xx"

\* C36: success means delivered: a delivery is treated as successful (the
\* retry sequence stops and no failure is reported) only if some POST attempt
\* for its payload received a 2xx response, also when setConfig is called
\* with none or with another configuration while the sequence waits between
\* attempts.
C36_SuccessMeansDelivered ==
    \A i \in 1..Len(deliveries) :
        deliveries[i].pc = "sent" => SomePostAccepted(deliveries[i])

-----------------------------------------------------------------------------
(* Claims about the shared baselines *)

\* C37: baselines are never modified: no operation changes the shared
\* all-allowed and all-blocked baseline settings; on a fresh install, editing
\* the plugin's default settings or creating a profile leaves the all-allowed
\* baseline with all five flags false.
C37_BaselinesNeverModified ==
    /\ DEFAULT_PRIVACY_SETTINGS = AllAllowed
    /\ AllBlocked(FULL_PRIVACY_SETTINGS)

-----------------------------------------------------------------------------
(* Claims about the notifications of a policy change *)

\* the privacy_changed calls of the step just taken
PolicyChanged == SelectSeq(notifications', LAMBDA n : n.event = "privacy_changed")

\* every privacy_changed call of the step carries this trigger, and no
\* camera gets two of them
TriggerIs(trigger) ==
    /\ \A k \in 1..Len(PolicyChanged) : PolicyChanged[k].trigger = trigger
    /\ \A j, k \in 1..Len(PolicyChanged) :
           PolicyChanged[j].cameraId = PolicyChanged[k].cameraId => j = k

\* C38: the notification trigger names the cause: the trigger field of a
\* policy-changed notification is schedule for a schedule edge, profile for
\* a profile toggle, panic for an override flip and manual for a manual
\* edit, and a single cause produces at most one policy-changed notification
\* per affected subject.
C38_TriggerNamesCause ==
    [][/\ NotifyTick => TriggerIs("schedule")
       /\ (NotifyProfileTurnOn(1) \/ NotifyProfileTurnOff(1)) => TriggerIs("profile")
       /\ (\E enabled \in BOOLEAN : NotifySetPanicMode(enabled)) => TriggerIs("panic")
       /\ (\E cameraId \in CameraIds, key \in MixinKeys, value \in BOOLEAN :
               NotifyMixinPutSetting(cameraId, key, value)) => TriggerIs("manual")]_vars

\* whatever the trigger says, a step makes at most one policy-changed call
\* per camera
OnePolicyChangePerCamera ==
    [][\A j, k \in 1..Len(PolicyChanged) :
          PolicyChanged[j].cameraId = PolicyChanged[k].cameraId => j = k]_vars

-----------------------------------------------------------------------------
(* Claims about setPanicMode *)

\* the step is a call setPanicMode(x), from the plugin's settings or from
\* the panic switch
PanicCall(x) == PanicSetPanicMode(x) \/ PanicTurnBegin(x)

\* the notify*() calls of the step that are panic_mode notifications
PanicNotified == SelectSeq(notifications', LAMBDA n : n.event = "panic_mode")

\* a call with the value the override has changes nothing, logs nothing and
\* notifies nothing
PanicRepeatIsNoOp ==
    \A x \in BOOLEAN :
        (PanicSetPanicMode(x) /\ pluginSettings.panicMode = x) =>
            /\ UNCHANGED <<DEFAULT_PRIVACY_SETTINGS, pluginSettings, managers, initialized,
                           callbacks, schedules, checkInterval, intervals, privacyMixins,
                           effectiveSettings, profileDevices, panicModeDevice,
                           logCache, auditStorage, retentionDays, webhookConfig>>
            /\ calls' = <<>>
            /\ notifications' = <<>>
            /\ deliveries' = deliveries

\* a call that flips the override adds one audit entry, of trigger panic, at
\* the head of the log, and makes at most one panic_mode notification
PanicFlipLogsOnce ==
    \A x \in BOOLEAN :
        (PanicCall(x) /\ pluginSettings.panicMode # x) =>
            /\ pluginSettings'.panicMode = x
            /\ Len(logCache'.logs) = Len(getLogs(World)) + 1
            /\ logCache'.logs[1].trigger = "panic"
            /\ \A k \in 1..Len(getLogs(World)) : logCache'.logs[k + 1] = getLogs(World)[k]
            /\ Len(PanicNotified) <= 1

\* the panic switch, once it exists, shows the override
SwitchShowsOverride ==
    panicModeDevice # Null => panicModeDevice.on = pluginSettings.panicMode

\* every call of setPanicMode, taken by itself, is a no-op or one logged flip
SetPanicModeStepwise == [][PanicRepeatIsNoOp /\ PanicFlipLogsOnce]_vars

\* C39: setPanicMode is idempotent: setPanicMode(x) called while the override
\* already equals x changes no state, re-evaluates no subject, appends no
\* audit entry and submits no notification; a real flip appends exactly one
\* audit entry with trigger panic and submits at most one panic_mode
\* notification, and afterwards the panic switch device's on state equals the
\* override flag.
C39_SetPanicModeIdempotent ==
    /\ [](SwitchShowsOverride)
    /\ SetPanicModeStepwise

-----------------------------------------------------------------------------
(* Claims about switching a profile on and off *)

\* the plugin's state with the profile taken out of the profile list
WithoutProfile(w, nativeId) ==
    [w EXCEPT !.pluginSettings.profiles = SelectSeq(@, LAMBDA p : p.id # nativeId)]

\* the cameras of the profile device that have a mixin
MemberMixins(nativeId) ==
    {c \in Members(profileDevices[nativeId].cameraIds) \cap CameraIds : privacyMixins[c] # Null}

\* after turnOff() of an active profile every member camera holds what
\* calculateEffectiveSettings() gives when the profile is not there
TurnOffRestores ==
    \A nativeId \in {1} :
        (NotifyProfileTurnOff(nativeId) /\ profileDevices[nativeId].active) =>
            /\ ~profileDevices'[nativeId].active
            /\ \A c \in MemberMixins(nativeId) :
                   effectiveSettings'[c].value =
                       (calculateEffectiveSettings(WithoutProfile(World, nativeId), c).value)'

\* turnOn() of an active profile and turnOff() of an inactive one return at
\* their first line
RepeatedSwitchIsNoOp ==
    \A nativeId \in {1} :
        (\/ NotifyProfileTurnOn(nativeId) /\ profileDevices[nativeId].active
         \/ NotifyProfileTurnOff(nativeId) /\ ~profileDevices[nativeId].active) =>
            /\ UNCHANGED <<DEFAULT_PRIVACY_SETTINGS, pluginSettings, managers, initialized,
                           callbacks, schedules, checkInterval, intervals, privacyMixins,
                           effectiveSettings, profileDevices, panicModeDevice,
                           logCache, auditStorage, retentionDays, webhookVars>>
            /\ calls' = <<>>
            /\ notifications' = <<>>

\* C40: profile round trip: turnOn() followed by turnOff() of a profile, with
\* no other change in between, returns every member subject's effective
\* policy to what the resolver gives without that profile (schedule settings
\* if its schedule is active, else manual settings); turnOn() on an active
\* profile and turnOff() on an inactive profile change nothing.
C40_ProfileRoundTrip == [][TurnOffRestores /\ RepeatedSwitchIsNoOp]_vars

\* profile 1, with camera 1 and its mixin as a member, was switched on (the
\* newest audit entry is its activation of camera 1) and is off again
C40_Witness ==
    /\ profileDevices[1] # Null
    /\ ~profileDevices[1].active
    /\ MemberMixins(1) = {1}
    /\ logCache # Null
    /\ Len(logCache.logs) = 1
    /\ logCache.logs[1].trigger = "profile"
    /\ logCache.logs[1].cameraId = 1

====
